---- MODULE Spec2Model ----
(***************************************************************************)
(* The Pill: the HTTP boundary (app.py analyze / analyze_stream), the      *)
(* agent loop in its two variants (run_analysis, run_analysis_streaming)   *)
(* and the tool dispatcher (process_tool_call).                            *)
(*                                                                         *)
(* A ticker is a sequence of one-character strings, so that str.upper()    *)
(* and str.strip() are computed and not assumed.  The generative model and *)
(* the data providers are the environment: the response of a model call    *)
(* and the outcome of a data-client call are drawn from small sets.        *)
(***************************************************************************)
EXTENDS Integers, Sequences, FiniteSets, TLC

VARIABLES
    pc,             \* position of the request: idle, model, block, dispatch,
                    \*   final, done, failed, rejected
    req,            \* the HTTP request: route and raw ticker parameter
    http,           \* the HTTP response head/body the handler produced
    messages,       \* the conversation of run_analysis / run_analysis_streaming
    response,       \* the model response being processed
    i,              \* index of the for-loop over response.content
    tool_results,   \* tool_result blocks collected in the current turn
    final_response, \* text accumulated by run_analysis
    events,         \* frames yielded by run_analysis_streaming
    calls,          \* history: arguments of every claude_client.messages.create
    dispatched,     \* history: arguments and outcome of every process_tool_call
    client_calls,   \* history: every data-client method call with its arguments
    probe,          \* a single process_tool_call under test (SpecDispatch)
    first,          \* the finished run of the streaming variant (SpecPair)
    parked,         \* the locals of the request that is not running (SpecConc)
    me,             \* which of the two requests is running (SpecConc)
    sec,            \* a single call of a method of SECFetcher (SpecCik, SpecFiling, SpecFacts)
    stock,          \* a single call of a method of StockDataFetcher (SpecStock)
    finnhub,        \* a FinnhubFetcher and a single call of its method (SpecFinnhub)
    boot            \* the start of the process and its first request (SpecBoot)

vars == <<pc, req, http, messages, response, i, tool_results, final_response,
          events, calls, dispatched, client_calls, probe, first, parked, me,
          sec, stock, finnhub, boot>>

\* what the analysis loop never touches
harness == <<probe, first, parked, me, sec, stock, finnhub, boot>>

\* what only the specifications of the other data clients and of the start use
side == <<stock, finnhub, boot>>

\* what a request of the analysis loop reads and writes
loop == <<pc, req, http, messages, response, i, tool_results, final_response,
          events, calls, dispatched, client_calls>>

(***************************************************************************)
(* Bounds                                                                  *)
(***************************************************************************)
\* model calls of one request
MaxCalls == 3
\* content blocks the model emits over one request
MaxBlocks == 2

(***************************************************************************)
(* Strings                                                                 *)
(***************************************************************************)
UpperChar(c) ==
    CASE c = "a" -> "A"
      [] c = "b" -> "B"
      [] OTHER -> c

\* str.upper()
upper(s) == [k \in 1..Len(s) |-> UpperChar(s[k])]

IsSpace(c) == c = " "

RECURSIVE lstrip(_)
lstrip(s) ==
    IF s # <<>> /\ IsSpace(Head(s)) THEN lstrip(Tail(s)) ELSE s

RECURSIVE rstrip(_)
rstrip(s) ==
    IF s # <<>> /\ IsSpace(s[Len(s)]) THEN rstrip(SubSeq(s, 1, Len(s) - 1)) ELSE s

\* str.strip()
strip(s) == rstrip(lstrip(s))

(***************************************************************************)
(* Values of a mapping: a ticker value is tagged with its JSON type        *)
(***************************************************************************)
Str(s) == [k |-> "str", v |-> s]
NoValue == [k |-> "absent", v |-> <<>>]
NullValue == [k |-> "null", v |-> <<>>]
IntValue == [k |-> "int", v |-> <<>>]

\* an optional string argument that the mapping does not hold
Absent == "<absent>"

\* dict.get(key, default) for a tagged value
get_value(val, default) == IF val.k = "absent" THEN default ELSE val

\* dict.get(key, default) for an optional string argument
get_string(val, default) == IF val = Absent THEN default ELSE val

SeqsUpTo(S, n) == UNION {[1..k -> S] : k \in 0..n}

(***************************************************************************)
(* Data clients, seen from the dispatcher.  Every fetch method catches its *)
(* own failures, so a call returns either a data record or an error        *)
(* record; which one is the provider's choice (outcome).                   *)
(***************************************************************************)
Outcomes == {"data", "error"}

ClientReturn(method, outcome) ==
    [kind |-> outcome, by |-> method,
     error |-> IF outcome = "error" THEN "Failed" ELSE ""]

ClientCall(client, method, ticker, extra) ==
    [client |-> client, method |-> method, ticker |-> ticker, extra |-> extra]

(***************************************************************************)
(* process_tool_call                                                       *)
(***************************************************************************)
\* names of the entries of TOOLS
TOOLS ==
    <<"get_stock_quote", "get_company_info", "get_financial_statements",
      "get_sec_filing", "get_key_metrics">>

SHKRELI_SYSTEM_PROMPT == "SHKRELI_SYSTEM_PROMPT"

\* tool_ticker, had the ticker been passed on as given
tool_ticker_AsGiven(tool_input) ==
    LET tv == get_value(tool_input.ticker, Str(<<>>))
    IN  IF tv.k = "str"
        THEN [ok |-> TRUE, v |-> tv.v]
        ELSE [ok |-> FALSE, v |-> <<>>]

\* tool_input.get("ticker", "").upper(): ok is FALSE when .upper() raises
\* AttributeError (the value is not a string)
tool_ticker(tool_input) ==
    LET tv == get_value(tool_input.ticker, Str(<<>>))
    IN  IF tv.k = "str"
        THEN [ok |-> TRUE, v |-> upper(tv.v)]
        ELSE [ok |-> FALSE, v |-> <<>>]

statement_type_of(tool_input) == get_string(tool_input.statement_type, "all")

filing_type_of(tool_input) == get_string(tool_input.filing_type, "10-Q")

unknown_tool(tool_name) ==
    [kind |-> "error", by |-> "process_tool_call",
     error |-> "Unknown tool: " \o tool_name]

Returned(client, method, ticker, extra, outcome) ==
    [raised |-> FALSE,
     result |-> ClientReturn(method, outcome),
     calls |-> <<ClientCall(client, method, ticker, extra)>>]

\* raised: the call ended with an exception; result: the value returned;
\* calls: the data-client calls made, in order
process_tool_call(tool_name, tool_input, outcome) ==
    LET t == tool_ticker(tool_input)
    IN  IF ~t.ok
        THEN [raised |-> TRUE,
              result |-> [kind |-> "raise", by |-> "process_tool_call",
                          error |-> "AttributeError"],
              calls |-> <<>>]
        ELSE CASE tool_name = "get_stock_quote" ->
                    Returned("stock_fetcher", "get_quote", t.v, <<>>, outcome)
               [] tool_name = "get_company_info" ->
                    Returned("stock_fetcher", "get_company_info", t.v, <<>>, outcome)
               [] tool_name = "get_financial_statements" ->
                    Returned("stock_fetcher", "get_financials", t.v,
                             <<statement_type_of(tool_input)>>, outcome)
               [] tool_name = "get_sec_filing" ->
                    Returned("sec_fetcher", "get_filing", t.v,
                             <<filing_type_of(tool_input)>>, outcome)
               [] tool_name = "get_key_metrics" ->
                    Returned("stock_fetcher", "get_key_metrics", t.v, <<>>, outcome)
               [] OTHER ->
                    [raised |-> FALSE, result |-> unknown_tool(tool_name),
                     calls |-> <<>>]

\* json.dumps(tool_result, indent=2)
json_dumps(result) == [json |-> result]

(***************************************************************************)
(* What the model may answer                                               *)
(***************************************************************************)
ToolNames ==
    {"get_stock_quote", "get_company_info", "get_financial_statements",
     "get_sec_filing", "get_key_metrics", "get_realtime_quote",
     "some_future_tool"}

Texts == {"A", "B"}

NoId == <<0, 0>>

TextBlock(t) == [type |-> "text", text |-> t]

ToolUse(name, input) == [type |-> "tool_use", id |-> NoId, name |-> name, input |-> input]

Input(ticker, statement_type, filing_type) ==
    [ticker |-> ticker, statement_type |-> statement_type, filing_type |-> filing_type]

\* the blocks a response of the agent loop is made of
LoopBlocks ==
    {TextBlock(t) : t \in Texts}
    \cup {ToolUse(n, Input(Str(<<"a", "B">>), Absent, Absent)) : n \in ToolNames}
    \cup {ToolUse("get_stock_quote", Input(NullValue, Absent, Absent))}

StopReasons == {"tool_use", "end_turn"}

\* the model gives every tool_use block of a response its own identifier
WithIds(content, n) ==
    [j \in 1..Len(content) |->
        IF content[j].type = "tool_use"
        THEN [content[j] EXCEPT !.id = <<n, j>>]
        ELSE content[j]]

NoResponse == [stop_reason |-> "none", content |-> <<>>]

RECURSIVE BlocksEmitted(_)
BlocksEmitted(msgs) ==
    IF msgs = <<>> THEN 0
    ELSE (IF Head(msgs).role = "assistant" THEN Len(Head(msgs).content) ELSE 0)
         + BlocksEmitted(Tail(msgs))

(***************************************************************************)
(* HTTP boundary                                                           *)
(***************************************************************************)
Routes == {"analyze", "stream"}

\* the ticker parameter of a request: absent, or a string
RawTickers ==
    {NoValue, Str(<<>>), Str(<<" ">>), Str(<<" ", " ">>),
     Str(<<" ", "a", "B", " ">>)}

\* request.json of POST /analyze holds any JSON value under "ticker",
\* request.args of GET /analyze/stream holds strings only
RawTickersOf(route) ==
    IF route = "analyze" THEN RawTickers \cup {NullValue} ELSE RawTickers

NoRequest == [route |-> "none", ticker |-> NoValue]

NoHttp ==
    [status |-> 0, error |-> "", success |-> FALSE, analysis |-> "",
     ticker |-> <<>>, mimetype |-> ""]

\* request_ticker, had the parameter not been trimmed
request_ticker_NoStrip(raw) == upper(get_value(raw, Str(<<>>)).v)

\* request.args.get("ticker", "").strip().upper()
request_ticker(raw) == upper(strip(get_value(raw, Str(<<>>)).v))

\* the second step of the prompt: the line of run_analysis_streaming ends
\* with two spaces, the line of run_analysis does not
prompt_step2(route) ==
    IF route = "stream" THEN "2. Get company info  " ELSE "2. Get company info"

\* the first turn of the conversation
first_turn(route, ticker) ==
    [role |-> "user",
     content |-> <<[type |-> "prompt", ticker |-> upper(ticker),
                    step2 |-> prompt_step2(route)]>>]

(***************************************************************************)
(* Events of the streaming variant                                         *)
(***************************************************************************)
\* f'Fetching {block.name}...', as the parts of the formatted string
status_message(name) == <<"Fetching ", name, "...">>

status_event(name) == [type |-> "status", message |-> status_message(name)]

content_event(text) == [type |-> "content", text |-> text]

done_event == [type |-> "done"]

\* hasattr(block, "text")
has_text(block) == block.type = "text"

\* tool_result, had every result been tagged with the first identifier of the turn
tool_result_FirstId(block, result) ==
    [type |-> "tool_result", tool_use_id |-> <<block.id[1], 1>>,
     content |-> json_dumps(result)]

tool_result(block, result) ==
    [type |-> "tool_result", tool_use_id |-> block.id, content |-> json_dumps(result)]

(***************************************************************************)
(* SECFetcher (tools/sec_fetcher.py).  An optional value is None or        *)
(* Some(x); a string that the code compares or changes is a sequence of    *)
(* one-character strings.                                                  *)
(***************************************************************************)
\* entries of the ticker directory
MaxEntries == 2
\* entries of the filing history
MaxFilings == 2
\* observations of one XBRL fact
MaxObs == 2

None == <<>>

Some(x) == <<x>>

DigitChars == <<"0", "1", "2", "3", "4", "5", "6", "7", "8", "9">>

\* str(n) of a natural number
RECURSIVE str_int(_)
str_int(n) ==
    IF n < 10 THEN <<DigitChars[n + 1]>>
    ELSE str_int(n \div 10) \o <<DigitChars[(n % 10) + 1]>>

\* str.zfill(width)
RECURSIVE zfill(_, _)
zfill(s, width) == IF Len(s) >= width THEN s ELSE zfill(<<"0">> \o s, width)

\* what session.get does: it raises, or it returns a response with a
\* status code and a body that is JSON or is not
NetworkError == [raised |-> TRUE, status_code |-> 0, decodable |-> FALSE]

HttpResponse(code, decodable) ==
    [raised |-> FALSE, status_code |-> code, decodable |-> decodable]

\* 304 is an answer that session.get hands back as it is, without a body
Fetches ==
    {NetworkError, HttpResponse(200, TRUE), HttpResponse(200, FALSE),
     HttpResponse(304, FALSE), HttpResponse(404, FALSE), HttpResponse(500, TRUE)}

\* response.raise_for_status() raises
raise_for_status(r) == r.status_code >= 400 /\ r.status_code < 600

\* the scan of data.values(); an entry whose ticker is no string, or a
\* matching entry without cik_str, raises and _get_cik returns None
RECURSIVE scan_entries(_, _)
scan_entries(entries, ticker) ==
    IF entries = <<>> THEN None
    ELSE LET entry == Head(entries)
             symbol == get_value(entry.ticker, Str(<<>>))
         IN  IF symbol.k # "str" THEN None
             ELSE IF upper(symbol.v) = ticker
                  THEN IF entry.cik_str = None THEN None
                       ELSE Some(zfill(str_int(entry.cik_str[1]), 10))
                  ELSE scan_entries(Tail(entries), ticker)

\* _get_cik, had response.raise_for_status() been left out
get_cik_NoStatusCheck(ticker, dir) ==
    IF dir.fetch.raised \/ ~dir.fetch.decodable
    THEN None
    ELSE scan_entries(dir.entries, upper(ticker))

\* _get_cik, had the ticker been compared as given
get_cik_AsGiven(ticker, dir) ==
    IF dir.fetch.raised \/ raise_for_status(dir.fetch) \/ ~dir.fetch.decodable
    THEN None
    ELSE scan_entries(dir.entries, ticker)

\* _get_cik
get_cik(ticker, dir) ==
    IF dir.fetch.raised \/ raise_for_status(dir.fetch) \/ ~dir.fetch.decodable
    THEN None
    ELSE scan_entries(dir.entries, upper(ticker))

\* list[i] if i < len(list) else None, with positions counted from 1
at_or_none(list, k) == IF k <= Len(list) THEN Some(list[k]) ELSE None

filing_at(recent, k) ==
    [form |-> recent.form[k],
     filing_date |-> at_or_none(recent.filingDate, k),
     accession_number |-> at_or_none(recent.accessionNumber, k),
     primary_document |-> at_or_none(recent.primaryDocument, k)]

\* latest_filing, had the scan gone on after the first match
latest_filing_Last(recent, filing_type) ==
    LET matches == {k \in 1..Len(recent.form) : recent.form[k] = filing_type}
    IN  IF matches = {} THEN None
        ELSE Some(filing_at(recent, CHOOSE k \in matches : \A m \in matches : m <= k))

\* for i, form in enumerate(forms): if form == filing_type: ...; break
latest_filing(recent, filing_type) ==
    LET matches == {k \in 1..Len(recent.form) : recent.form[k] = filing_type}
    IN  IF matches = {} THEN None
        ELSE Some(filing_at(recent, CHOOSE k \in matches : \A m \in matches : k <= m))

\* the order of str: character by character, a proper prefix comes first
RECURSIVE str_less(_, _)
str_less(a, b) ==
    IF b = <<>> THEN FALSE
    ELSE IF a = <<>> THEN TRUE
    ELSE LET ca == CHOOSE n \in 1..Len(DigitChars) : DigitChars[n] = Head(a)
             cb == CHOOSE n \in 1..Len(DigitChars) : DigitChars[n] = Head(b)
         IN  IF ca # cb THEN ca < cb ELSE str_less(Tail(a), Tail(b))

\* x.get("end", "")
end_key(x) == IF x.end = None THEN <<>> ELSE x.end[1]

without(data, k) == SubSeq(data, 1, k - 1) \o SubSeq(data, k + 1, Len(data))

\* sorted(data, key=lambda x: x.get("end", ""), reverse=True), had reverse
\* been left out
RECURSIVE sorted_by_end_Ascending(_)
sorted_by_end_Ascending(data) ==
    IF data = <<>> THEN <<>>
    ELSE LET k == CHOOSE k \in 1..Len(data) :
                    /\ \A m \in 1..Len(data) : ~str_less(end_key(data[m]), end_key(data[k]))
                    /\ \A m \in 1..(k - 1) : end_key(data[m]) # end_key(data[k])
         IN  <<data[k]>> \o sorted_by_end_Ascending(without(data, k))

\* sorted(data, key=lambda x: x.get("end", ""), reverse=True): the sort is
\* stable, observations with equal keys keep the order of the input
RECURSIVE sorted_by_end(_)
sorted_by_end(data) ==
    IF data = <<>> THEN <<>>
    ELSE LET k == CHOOSE k \in 1..Len(data) :
                    /\ \A m \in 1..Len(data) : ~str_less(end_key(data[k]), end_key(data[m]))
                    /\ \A m \in 1..(k - 1) : end_key(data[m]) # end_key(data[k])
         IN  <<data[k]>> \o sorted_by_end(without(data, k))

\* if data: sorted_data = sorted(...); value = sorted_data[0].get("val")
latest_val(data) == IF data = <<>> THEN None ELSE sorted_by_end(data)[1].val

NoSecRecord ==
    [kind |-> "none", error |-> <<>>, ticker |-> <<>>, company_name |-> <<>>,
     cik |-> None, latest_filing |-> None, shares_outstanding |-> None,
     total_assets |-> None, total_liabilities |-> None,
     stockholders_equity |-> None, sec_url |-> None]

sec_error(parts) == [NoSecRecord EXCEPT !.kind = "error", !.error = parts]

\* requests.exceptions.JSONDecodeError is a RequestException in requests
\* 2.27 and later and a plain ValueError before
json_error(legacy) ==
    IF legacy THEN sec_error(<<"Error processing SEC data: ">>)
    ELSE sec_error(<<"Failed to fetch SEC data: ">>)

\* get_filing: the result and the endpoints it has sent a request to
get_filing(ticker, filing_type, env) ==
    LET cik == get_cik(ticker, env.dir)
        sub == env.sub
        facts == env.facts
        ok == facts.fetch.status_code = 200
    IN  IF cik = None
        THEN [out |-> sec_error(<<"Could not find CIK for ", ticker>>),
              requests |-> <<"company_tickers">>]
        ELSE IF sub.fetch.raised \/ raise_for_status(sub.fetch)
        THEN [out |-> sec_error(<<"Failed to fetch SEC data: ">>),
              requests |-> <<"company_tickers", "submissions">>]
        ELSE IF ~sub.fetch.decodable
        THEN [out |-> json_error(env.legacy),
              requests |-> <<"company_tickers", "submissions">>]
        ELSE IF facts.fetch.raised
        THEN [out |-> sec_error(<<"Failed to fetch SEC data: ">>),
              requests |-> <<"company_tickers", "submissions", "companyfacts">>]
        ELSE IF ok /\ ~facts.fetch.decodable
        THEN [out |-> json_error(env.legacy),
              requests |-> <<"company_tickers", "submissions", "companyfacts">>]
        ELSE [out |->
                [kind |-> "record", error |-> <<>>,
                 ticker |-> upper(ticker),
                 company_name |-> IF sub.name = None THEN ticker ELSE sub.name[1],
                 cik |-> cik,
                 latest_filing |-> latest_filing(sub.recent, filing_type),
                 shares_outstanding |->
                     IF ok THEN latest_val(facts.us_gaap["CommonStockSharesOutstanding"]) ELSE None,
                 total_assets |-> IF ok THEN latest_val(facts.us_gaap["Assets"]) ELSE None,
                 total_liabilities |->
                     IF ok THEN latest_val(facts.us_gaap["Liabilities"]) ELSE None,
                 stockholders_equity |->
                     IF ok THEN latest_val(facts.us_gaap["StockholdersEquity"]) ELSE None,
                 sec_url |-> Some([CIK |-> cik[1], type |-> filing_type])],
              requests |-> <<"company_tickers", "submissions", "companyfacts">>]

\* str(e) of what the company-facts request of get_company_facts raised
fetch_failure(fetch) ==
    IF fetch.raised THEN "ConnectionError"
    ELSE IF raise_for_status(fetch) THEN "HTTPError"
    ELSE "JSONDecodeError"

\* get_company_facts, had the test of the identifier been left out
get_company_facts_NoCikCheck(ticker, env) ==
    LET facts == env.facts
    IN  IF facts.fetch.raised \/ raise_for_status(facts.fetch) \/ ~facts.fetch.decodable
        THEN [out |-> sec_error(<<fetch_failure(facts.fetch)>>),
              requests |-> <<"company_tickers", "companyfacts">>]
        ELSE [out |-> [kind |-> "json", error |-> <<>>, us_gaap |-> facts.us_gaap],
              requests |-> <<"company_tickers", "companyfacts">>]

\* get_company_facts: the result and the endpoints it has sent a request to
get_company_facts(ticker, env) ==
    LET cik == get_cik(ticker, env.dir)
        facts == env.facts
    IN  IF cik = None
        THEN [out |-> sec_error(<<"Could not find CIK for ", ticker>>),
              requests |-> <<"company_tickers">>]
        ELSE IF facts.fetch.raised \/ raise_for_status(facts.fetch) \/ ~facts.fetch.decodable
        THEN [out |-> sec_error(<<fetch_failure(facts.fetch)>>),
              requests |-> <<"company_tickers", "companyfacts">>]
        ELSE [out |-> [kind |-> "json", error |-> <<>>, us_gaap |-> facts.us_gaap],
              requests |-> <<"company_tickers", "companyfacts">>]

\* the four facts get_filing reads
FactKeys == {"CommonStockSharesOutstanding", "Assets", "Liabilities", "StockholdersEquity"}

NoRecent ==
    [form |-> <<>>, filingDate |-> <<>>, accessionNumber |-> <<>>,
     primaryDocument |-> <<>>]

NoEnv ==
    [dir |-> [fetch |-> NetworkError, entries |-> <<>>],
     sub |-> [fetch |-> NetworkError, name |-> None, recent |-> NoRecent],
     facts |-> [fetch |-> NetworkError, us_gaap |-> [key \in FactKeys |-> <<>>]],
     legacy |-> FALSE]

NoSec ==
    [state |-> "off", method |-> "", ticker |-> <<>>, filing_type |-> "",
     env |-> NoEnv, cik |-> None, out |-> NoSecRecord, requests |-> <<>>]

(***************************************************************************)
(* StockDataFetcher (tools/stock_data.py).  stock.info is a mapping whose   *)
(* values are numbers or null; a financial statement is a table with       *)
(* column labels, row labels and cells, or None.                           *)
(***************************************************************************)
Num(n) == [k |-> "num", v |-> n]

\* bool(x) of a value of stock.info
truthy(x) == x.k = "num" /\ x.v # 0

\* info.get(key)
info_get(info, key) == get_value(info[key], NullValue)

\* a or b
py_or(a, b) == IF truthy(a) THEN a ELSE b

\* the keys of stock.info that get_quote and get_key_metrics read
QuoteFields ==
    <<[field |-> "price", primary |-> "currentPrice", secondary |-> "regularMarketPrice"],
      [field |-> "previous_close", primary |-> "previousClose",
       secondary |-> "regularMarketPreviousClose"],
      [field |-> "open", primary |-> "open", secondary |-> "regularMarketOpen"],
      [field |-> "day_high", primary |-> "dayHigh", secondary |-> "regularMarketDayHigh"],
      [field |-> "day_low", primary |-> "dayLow", secondary |-> "regularMarketDayLow"],
      [field |-> "volume", primary |-> "volume", secondary |-> "regularMarketVolume"]>>

InfoKeys ==
    {QuoteFields[k].primary : k \in 1..Len(QuoteFields)}
    \cup {QuoteFields[k].secondary : k \in 1..Len(QuoteFields)}
    \cup {"marketCap", "operatingCashflow", "freeCashflow", "leveredFreeCashflow"}

NaN == [k |-> "nan", v |-> 0]

NoTable == [none |-> TRUE, columns |-> <<>>, index |-> <<>>, cells |-> <<>>]

\* a DataFrame: cells[c][r] is the cell of column c and row r
DataFrame(columns, index, cells) ==
    [none |-> FALSE, columns |-> columns, index |-> index, cells |-> cells]

\* df.empty
df_empty(df) == Len(df.columns) = 0 \/ Len(df.index) = 0

\* _dataframe_to_dict: a mapping from column label to a mapping from row
\* label to the cell, with None for NaN
dataframe_to_dict(df) ==
    [c \in {df.columns[k] : k \in 1..Len(df.columns)} |->
        [r \in {df.index[k] : k \in 1..Len(df.index)} |->
            LET value == df.cells[CHOOSE k \in 1..Len(df.columns) : df.columns[k] = c]
                                 [CHOOSE k \in 1..Len(df.index) : df.index[k] = r]
            IN  IF value = NaN THEN NullValue ELSE value]]

\* the statements of get_financials in the order of the code: key of the
\* bundle, attribute of the yfinance Ticker, statement_type that selects it
Statements ==
    <<[key |-> "quarterly_income_statement", attr |-> "quarterly_income_stmt",
       type |-> "income"],
      [key |-> "annual_income_statement", attr |-> "income_stmt", type |-> "income"],
      [key |-> "quarterly_balance_sheet", attr |-> "quarterly_balance_sheet",
       type |-> "balance"],
      [key |-> "annual_balance_sheet", attr |-> "balance_sheet", type |-> "balance"],
      [key |-> "quarterly_cash_flow", attr |-> "quarterly_cashflow", type |-> "cashflow"],
      [key |-> "annual_cash_flow", attr |-> "cashflow", type |-> "cashflow"]>>

TableAttrs == {Statements[k].attr : k \in 1..Len(Statements)}

NoStockRecord ==
    [kind |-> "none", error |-> <<>>, ticker |-> <<>>, fields |-> <<>>]

stock_error(what, ticker) ==
    [NoStockRecord EXCEPT !.kind = "error",
                          !.error = <<"Failed to get ", what, " for ", ticker, ": ">>]

\* get_financials, had the test of df.empty been left out
get_financials_KeepsEmpty(ticker, statement_type, env) ==
    IF env.raises THEN stock_error("financials", ticker)
    ELSE LET taken == {k \in 1..Len(Statements) :
                          /\ statement_type \in {Statements[k].type, "all"}
                          /\ ~env.tables[Statements[k].attr].none}
         IN  [NoStockRecord EXCEPT
                !.kind = "bundle", !.ticker = upper(ticker),
                !.fields = [key \in {Statements[k].key : k \in taken} |->
                              LET k == CHOOSE k \in taken : Statements[k].key = key
                              IN  dataframe_to_dict(env.tables[Statements[k].attr])]]

\* get_financials
get_financials(ticker, statement_type, env) ==
    IF env.raises THEN stock_error("financials", ticker)
    ELSE LET taken == {k \in 1..Len(Statements) :
                          /\ statement_type \in {Statements[k].type, "all"}
                          /\ ~env.tables[Statements[k].attr].none
                          /\ ~df_empty(env.tables[Statements[k].attr])}
         IN  [NoStockRecord EXCEPT
                !.kind = "bundle", !.ticker = upper(ticker),
                !.fields = [key \in {Statements[k].key : k \in taken} |->
                              LET k == CHOOSE k \in taken : Statements[k].key = key
                              IN  dataframe_to_dict(env.tables[Statements[k].attr])]]

\* get_quote: the six fields with a fallback key and one without
get_quote(ticker, env) ==
    IF env.raises THEN stock_error("quote", ticker)
    ELSE [NoStockRecord EXCEPT
            !.kind = "quote", !.ticker = upper(ticker),
            !.fields =
                [f \in {QuoteFields[k].field : k \in 1..Len(QuoteFields)} \cup {"market_cap"} |->
                    IF f = "market_cap" THEN info_get(env.info, "marketCap")
                    ELSE LET k == CHOOSE k \in 1..Len(QuoteFields) : QuoteFields[k].field = f
                         IN  py_or(info_get(env.info, QuoteFields[k].primary),
                                   info_get(env.info, QuoteFields[k].secondary))]]

\* get_key_metrics: the cash_flow group and one field of the others
get_key_metrics(ticker, env) ==
    IF env.raises THEN stock_error("key metrics", ticker)
    ELSE [NoStockRecord EXCEPT
            !.kind = "metrics", !.ticker = upper(ticker),
            !.fields =
                [market_cap |-> info_get(env.info, "marketCap"),
                 operating_cash_flow |-> info_get(env.info, "operatingCashflow"),
                 free_cash_flow |-> info_get(env.info, "freeCashflow"),
                 levered_free_cash_flow |->
                     get_value(env.info["leveredFreeCashflow"],
                               info_get(env.info, "freeCashflow"))]]

NoStockEnv ==
    [raises |-> FALSE, info |-> [key \in InfoKeys |-> NoValue],
     tables |-> [attr \in TableAttrs |-> NoTable]]

\* a call of a method of StockDataFetcher that has not returned
StockCall ==
    [state |-> "ready", method |-> "", ticker |-> <<>>, statement_type |-> "",
     env |-> NoStockEnv, out |-> NoStockRecord]

NoStock == [state |-> "off"]

(***************************************************************************)
(* FinnhubFetcher (tools/finnhub_fetcher.py)                               *)
(***************************************************************************)
\* the keys of the body of /quote and the fields they are returned as
FinnhubFields ==
    <<[field |-> "price", key |-> "c"], [field |-> "change", key |-> "d"],
      [field |-> "change_percent", key |-> "dp"], [field |-> "day_high", key |-> "h"],
      [field |-> "day_low", key |-> "l"], [field |-> "open", key |-> "o"],
      [field |-> "previous_close", key |-> "pc"]>>

FinnhubKeys == {FinnhubFields[k].key : k \in 1..Len(FinnhubFields)}

\* what requests.get does: it raises, or it returns a response with a
\* status code and a body that is a JSON mapping, other JSON, or no JSON
Answer(raised, code, decodable, is_dict, data) ==
    [raised |-> raised, status_code |-> code, decodable |-> decodable,
     is_dict |-> is_dict, data |-> data]

NoData == [key \in FinnhubKeys |-> NoValue]

NoFinnhubRecord ==
    [kind |-> "none", error |-> <<>>, ticker |-> <<>>,
     fields |-> [k \in {} |-> NullValue], realtime |-> FALSE]

finnhub_error(parts) == [NoFinnhubRecord EXCEPT !.kind = "error", !.error = parts]

\* not self.api_key
not_configured(api_key) == api_key = None \/ api_key = Some("")

\* the body of get_realtime_quote after the test of the key: the result
\* and the requests it has sent
realtime_quote_request(api_key, ticker, answer) ==
    IF ticker.k # "str"
    THEN [out |-> finnhub_error(<<"AttributeError">>), requests |-> <<>>]
    ELSE LET sent == <<[url |-> "https://finnhub.io/api/v1/quote",
                        symbol |-> upper(ticker.v), token |-> api_key]>>
         IN  IF answer.raised # ""
             THEN [out |-> finnhub_error(<<answer.raised>>), requests |-> sent]
             ELSE IF ~answer.decodable
             THEN [out |-> finnhub_error(<<"JSONDecodeError">>), requests |-> sent]
             ELSE IF ~answer.is_dict
             THEN [out |-> finnhub_error(<<"AttributeError">>), requests |-> sent]
             ELSE [out |->
                     [kind |-> "quote", error |-> <<>>, ticker |-> upper(ticker.v),
                      fields |->
                          [f \in {FinnhubFields[k].field : k \in 1..Len(FinnhubFields)} |->
                              LET k == CHOOSE k \in 1..Len(FinnhubFields) :
                                           FinnhubFields[k].field = f
                              IN  get_value(answer.data[FinnhubFields[k].key], NullValue)],
                      realtime |-> TRUE],
                   requests |-> sent]

\* get_realtime_quote, had the test of the key been left out
get_realtime_quote_NoKeyCheck(api_key, ticker, answer) ==
    realtime_quote_request(api_key, ticker, answer)

\* get_realtime_quote
get_realtime_quote(api_key, ticker, answer) ==
    IF not_configured(api_key)
    THEN [out |-> finnhub_error(<<"Finnhub API key ", "not configured">>),
          requests |-> <<>>]
    ELSE realtime_quote_request(api_key, ticker, answer)

\* a FinnhubFetcher that is not built yet
FinnhubCall ==
    [state |-> "new", api_key |-> None, ticker |-> NoValue,
     answer |-> Answer("", 200, FALSE, FALSE, NoData),
     out |-> NoFinnhubRecord, requests |-> <<>>]

NoFinnhub == [state |-> "off"]

(***************************************************************************)
(* The start of the process (run.py, and app.py run as a script)           *)
(***************************************************************************)
\* not api_key or api_key == 'your-api-key-here'
key_not_set(api_key) == api_key = None \/ api_key \in {Some(""), Some("your-api-key-here")}

\* a process that is started
BootStart ==
    [state |-> "start", entry |-> "", env_file |-> "", created |-> FALSE,
     anthropic_key |-> None, finnhub_key |-> None, deps |-> "", strict_sdk |-> FALSE,
     exit_code |-> 0, client_key |-> None]

NoBoot == [state |-> "off"]

\* no method of the other data clients is called and no process is started
OthersOff == stock = NoStock /\ finnhub = NoFinnhub /\ boot = NoBoot

(***************************************************************************)
(* Init                                                                    *)
(***************************************************************************)
NoProbe == [state |-> "off", name |-> "", input |-> Input(NoValue, Absent, Absent),
            outcome |-> "data", out |-> process_tool_call("", Input(NoValue, Absent, Absent), "data")]

\* the locals of a request that has not started
InitFrame ==
    [pc |-> "idle", req |-> NoRequest, http |-> NoHttp, messages |-> <<>>,
     response |-> NoResponse, i |-> 0, tool_results |-> <<>>,
     final_response |-> "", events |-> <<>>, calls |-> <<>>, dispatched |-> <<>>]

NoFirst == [taken |-> FALSE, frame |-> InitFrame]

\* no request has been received
LoopIdle ==
    /\ pc = "idle"
    /\ req = NoRequest
    /\ http = NoHttp
    /\ messages = <<>>
    /\ response = NoResponse
    /\ i = 0
    /\ tool_results = <<>>
    /\ final_response = ""
    /\ events = <<>>
    /\ calls = <<>>
    /\ dispatched = <<>>
    /\ client_calls = <<>>
    /\ first = NoFirst
    /\ parked = InitFrame
    /\ me = 1

Init ==
    /\ LoopIdle
    /\ probe = NoProbe
    /\ OthersOff
    /\ sec = NoSec

(***************************************************************************)
(* analyze / analyze_stream up to the first model call                     *)
(***************************************************************************)
Request(route, raw) ==
    /\ pc = "idle"
    /\ req' = [route |-> route, ticker |-> raw]
    /\ LET ticker == request_ticker(raw)
       IN  IF get_value(raw, Str(<<>>)).k # "str"
           THEN \* .strip() raises before the try statement of analyze is
                \* entered: the framework answers with its own 500 page
                /\ http' = [NoHttp EXCEPT !.status = 500, !.mimetype = "text/html"]
                /\ pc' = "escaped"
                /\ UNCHANGED messages
           ELSE IF ticker = <<>>
           THEN /\ http' = [NoHttp EXCEPT !.status = 400, !.error = "No ticker provided"]
                /\ pc' = "rejected"
                /\ UNCHANGED messages
           ELSE /\ http' = IF route = "stream"
                           THEN [NoHttp EXCEPT !.status = 200,
                                               !.mimetype = "text/event-stream"]
                           ELSE NoHttp
                /\ messages' = <<first_turn(route, ticker)>>
                /\ pc' = "model"
    /\ UNCHANGED <<response, i, tool_results, final_response, events, calls,
                   dispatched, client_calls, harness>>

\* an exception leaves the loop: analyze catches it and answers 500, the
\* generator of analyze_stream ends without yielding anything more
Fail(msg) ==
    /\ pc' = "failed"
    /\ http' = IF req.route = "analyze"
               THEN [NoHttp EXCEPT !.status = 500, !.error = msg]
               ELSE http

create_args == [system |-> SHKRELI_SYSTEM_PROMPT, tools |-> TOOLS, messages |-> messages]

(***************************************************************************)
(* claude_client.messages.create and the test of stop_reason               *)
(***************************************************************************)
ModelCallWith(sr, content) ==
    /\ pc = "model"
    /\ Len(calls) < MaxCalls
    /\ response' = [stop_reason |-> sr,
                    content |-> WithIds(content, Len(calls) + 1)]
    /\ pc' = IF sr = "tool_use" THEN "block" ELSE "final"
    /\ calls' = Append(calls, create_args)
    /\ i' = 1
    /\ tool_results' = <<>>
    /\ final_response' = ""
    /\ UNCHANGED <<req, http, messages, events, dispatched, client_calls, harness>>

ModelCall ==
    \E sr \in StopReasons :
    \E content \in SeqsUpTo(LoopBlocks, MaxBlocks - BlocksEmitted(messages)) :
        ModelCallWith(sr, content)

\* ModelCallRaises, had the failed call been made again
ModelCallRaises_Retries ==
    /\ pc = "model"
    /\ Len(calls) < MaxCalls
    /\ calls' = Append(calls, create_args)
    /\ UNCHANGED <<pc, http, req, messages, response, i, tool_results, final_response,
                   events, dispatched, client_calls, harness>>

ModelCallRaises ==
    /\ pc = "model"
    /\ Len(calls) < MaxCalls
    /\ calls' = Append(calls, create_args)
    /\ Fail("APIError")
    /\ UNCHANGED <<req, messages, response, i, tool_results, final_response,
                   events, dispatched, client_calls, harness>>

(***************************************************************************)
(* The tool-use turn: for block in response.content                        *)
(***************************************************************************)
AtToolUse ==
    /\ i <= Len(response.content)
    /\ response.content[i].type = "tool_use"

\* SkipBlock, had the streaming variant yielded the text of a tool-use turn
SkipBlock_YieldsText ==
    /\ pc = "block"
    /\ i <= Len(response.content)
    /\ response.content[i].type # "tool_use"
    /\ i' = i + 1
    /\ events' = IF req.route = "stream" /\ has_text(response.content[i])
                 THEN Append(events, content_event(response.content[i].text))
                 ELSE events
    /\ UNCHANGED <<pc, req, http, messages, response, tool_results, final_response,
                   calls, dispatched, client_calls, harness>>

\* a block that is no tool_use block is passed over
SkipBlock ==
    /\ pc = "block"
    /\ i <= Len(response.content)
    /\ response.content[i].type # "tool_use"
    /\ i' = i + 1
    /\ UNCHANGED <<pc, req, http, messages, response, tool_results, final_response,
                   events, calls, dispatched, client_calls, harness>>

\* YieldStatus, had the dispatcher not been run for the invocation
YieldStatus_SkipsDispatch ==
    /\ pc = "block"
    /\ req.route = "stream"
    /\ AtToolUse
    /\ events' = Append(events, status_event(response.content[i].name))
    /\ i' = i + 1
    /\ UNCHANGED <<pc, req, http, messages, response, tool_results, final_response,
                   calls, dispatched, client_calls, harness>>

\* run_analysis_streaming yields the status frame and is suspended
YieldStatus ==
    /\ pc = "block"
    /\ req.route = "stream"
    /\ AtToolUse
    /\ events' = Append(events, status_event(response.content[i].name))
    /\ pc' = "dispatch"
    /\ UNCHANGED <<req, http, messages, response, i, tool_results, final_response,
                   calls, dispatched, client_calls, harness>>

DispatchWith(outcome) ==
    /\ \/ pc = "dispatch"
       \/ pc = "block" /\ req.route = "analyze"
    /\ AtToolUse
    /\    LET block == response.content[i]
              r == process_tool_call(block.name, block.input, outcome)
          IN  /\ dispatched' = Append(dispatched,
                                  [call |-> Len(calls), id |-> block.id,
                                   name |-> block.name, input |-> block.input,
                                   raised |-> r.raised, result |-> r.result])
              /\ client_calls' = client_calls \o r.calls
              /\ IF r.raised
                 THEN /\ Fail(r.result.error)
                      /\ UNCHANGED <<tool_results, i>>
                 ELSE /\ tool_results' = Append(tool_results, tool_result(block, r.result))
                      /\ i' = i + 1
                      /\ pc' = "block"
                      /\ UNCHANGED http
    /\ UNCHANGED <<req, messages, response, final_response, events, calls, harness>>

Dispatch == \E outcome \in Outcomes : DispatchWith(outcome)

\* AppendTurns, had the assistant turn not been appended
AppendTurns_OnlyResults ==
    /\ pc = "block"
    /\ i > Len(response.content)
    /\ messages' = Append(messages, [role |-> "user", content |-> tool_results])
    /\ pc' = "model"
    /\ UNCHANGED <<req, http, response, i, tool_results, final_response, events,
                   calls, dispatched, client_calls, harness>>

\* AppendTurns, had a turn without tool results not been appended
AppendTurns_SkipsEmpty ==
    /\ pc = "block"
    /\ i > Len(response.content)
    /\ messages' = IF tool_results = <<>> THEN messages
                   ELSE messages \o
                          <<[role |-> "assistant", content |-> response.content],
                            [role |-> "user", content |-> tool_results]>>
    /\ pc' = "model"
    /\ UNCHANGED <<req, http, response, i, tool_results, final_response, events,
                   calls, dispatched, client_calls, harness>>

\* messages.append(assistant turn); messages.append(user turn)
AppendTurns ==
    /\ pc = "block"
    /\ i > Len(response.content)
    /\ messages' = messages \o
                     <<[role |-> "assistant", content |-> response.content],
                       [role |-> "user", content |-> tool_results]>>
    /\ pc' = "model"
    /\ UNCHANGED <<req, http, response, i, tool_results, final_response, events,
                   calls, dispatched, client_calls, harness>>

(***************************************************************************)
(* The terminal turn                                                       *)
(***************************************************************************)
\* FinalBlock, had each text been put in front of the texts before it
FinalBlock_Prepends ==
    /\ pc = "final"
    /\ i <= Len(response.content)
    /\ LET block == response.content[i]
       IN  IF has_text(block)
           THEN IF req.route = "stream"
                THEN /\ events' = <<content_event(block.text)>> \o events
                     /\ UNCHANGED final_response
                ELSE /\ final_response' = block.text \o final_response
                     /\ UNCHANGED events
           ELSE UNCHANGED <<events, final_response>>
    /\ i' = i + 1
    /\ UNCHANGED <<pc, req, http, messages, response, tool_results, calls,
                   dispatched, client_calls, harness>>

FinalBlock ==
    /\ pc = "final"
    /\ i <= Len(response.content)
    /\ LET block == response.content[i]
       IN  IF has_text(block)
           THEN IF req.route = "stream"
                THEN /\ events' = Append(events, content_event(block.text))
                     /\ UNCHANGED final_response
                ELSE /\ final_response' = final_response \o block.text
                     /\ UNCHANGED events
           ELSE UNCHANGED <<events, final_response>>
    /\ i' = i + 1
    /\ UNCHANGED <<pc, req, http, messages, response, tool_results, calls,
                   dispatched, client_calls, harness>>

\* Finish, had the generator ended without its last yield
Finish_NoDone ==
    /\ pc = "final"
    /\ i > Len(response.content)
    /\ pc' = "done"
    /\ http' = IF req.route = "stream" THEN http
               ELSE [NoHttp EXCEPT !.status = 200, !.success = TRUE,
                                   !.analysis = final_response,
                                   !.ticker = request_ticker(req.ticker)]
    /\ UNCHANGED <<req, messages, response, i, tool_results, final_response, events,
                   calls, dispatched, client_calls, harness>>

\* run_analysis_streaming yields the done frame; analyze answers 200
Finish ==
    /\ pc = "final"
    /\ i > Len(response.content)
    /\ pc' = "done"
    /\ IF req.route = "stream"
       THEN /\ events' = Append(events, done_event)
            /\ UNCHANGED http
       ELSE /\ http' = [NoHttp EXCEPT !.status = 200, !.success = TRUE,
                                      !.analysis = final_response,
                                      !.ticker = request_ticker(req.ticker)]
            /\ UNCHANGED events
    /\ UNCHANGED <<req, messages, response, i, tool_results, final_response, calls,
                   dispatched, client_calls, harness>>

Next ==
    \/ \E route \in Routes : \E raw \in RawTickersOf(route) : Request(route, raw)
    \/ ModelCall
    \/ ModelCallRaises
    \/ SkipBlock
    \/ YieldStatus
    \/ Dispatch
    \/ AppendTurns
    \/ FinalBlock
    \/ Finish

Spec == Init /\ [][Next]_vars

\* the statements of the loop run one after the other without waiting, and
\* the response object of the framework pulls the generator until it ends
\* the blocks the progress of the loop depends on: texts, an invocation
\* the dispatcher answers and an invocation it raises on
LiveBlocks ==
    {TextBlock(t) : t \in Texts}
    \cup {ToolUse("get_stock_quote", Input(Str(<<"a", "B">>), Absent, Absent)),
          ToolUse("get_stock_quote", Input(NullValue, Absent, Absent))}

ModelCallLive ==
    \E sr \in StopReasons :
    \E content \in SeqsUpTo(LiveBlocks, MaxBlocks - BlocksEmitted(messages)) :
        ModelCallWith(sr, content)

LoopStep ==
    SkipBlock \/ YieldStatus \/ Dispatch \/ AppendTurns \/ FinalBlock \/ Finish

NextLive ==
    \/ \E route \in Routes : \E raw \in RawTickersOf(route) : Request(route, raw)
    \/ ModelCallLive
    \/ ModelCallRaises
    \/ LoopStep

\* the statements of the loop run one after the other without waiting, and
\* the response object of the framework pulls the generator until it ends
SpecLive == Init /\ [][NextLive]_vars /\ WF_vars(LoopStep)

(***************************************************************************)
(* The two variants side by side: run_analysis_streaming runs to its end,  *)
(* then run_analysis is given the same ticker, the same model responses    *)
(* and the same tool results                                               *)
(***************************************************************************)
frame ==
    [pc |-> pc, req |-> req, http |-> http, messages |-> messages,
     response |-> response, i |-> i, tool_results |-> tool_results,
     final_response |-> final_response, events |-> events, calls |-> calls,
     dispatched |-> dispatched]

\* the last dispatcher call of the first run raised
FirstToolRaised ==
    /\ first.frame.dispatched # <<>>
    /\ first.frame.dispatched[Len(first.frame.dispatched)].raised

\* the last model call of the first run raised
FirstModelRaised == first.frame.pc = "failed" /\ ~FirstToolRaised

\* what the n-th model call of the first run returned
FirstResponse(n) ==
    IF 2 * n <= Len(first.frame.messages)
    THEN [stop_reason |-> "tool_use", content |-> first.frame.messages[2 * n].content]
    ELSE first.frame.response

RunAgain ==
    /\ ~first.taken
    /\ req.route = "stream"
    /\ pc \in {"done", "failed"}
    /\ first' = [taken |-> TRUE, frame |-> frame]
    /\ req' = [route |-> "analyze", ticker |-> req.ticker]
    /\ http' = NoHttp
    /\ messages' = <<first_turn("analyze", request_ticker(req.ticker))>>
    /\ pc' = "model"
    /\ response' = NoResponse
    /\ i' = 0
    /\ tool_results' = <<>>
    /\ final_response' = ""
    /\ events' = <<>>
    /\ calls' = <<>>
    /\ dispatched' = <<>>
    /\ UNCHANGED <<client_calls, probe, parked, me, sec, side>>

FirstRun ==
    /\ ~first.taken
    /\ \/ \E raw \in RawTickers : Request("stream", raw)
       \/ ModelCall
       \/ ModelCallRaises
       \/ LoopStep

ReplayModelCall ==
    /\ first.taken
    /\ Len(calls) < Len(first.frame.calls)
    /\ ~(Len(calls) + 1 = Len(first.frame.calls) /\ FirstModelRaised)
    /\ ModelCallWith(FirstResponse(Len(calls) + 1).stop_reason,
                     FirstResponse(Len(calls) + 1).content)

ReplayModelCallRaises ==
    /\ first.taken
    /\ Len(calls) + 1 = Len(first.frame.calls)
    /\ FirstModelRaised
    /\ ModelCallRaises

ReplayDispatch ==
    /\ first.taken
    /\ Len(dispatched) < Len(first.frame.dispatched)
    /\ LET d == first.frame.dispatched[Len(dispatched) + 1]
       IN  \E outcome \in Outcomes :
              /\ process_tool_call(d.name, d.input, outcome).result = d.result
              /\ DispatchWith(outcome)

ReplayStep ==
    /\ first.taken
    /\ (SkipBlock \/ AppendTurns \/ FinalBlock \/ Finish)

NextPair ==
    \/ FirstRun
    \/ RunAgain
    \/ ReplayModelCall
    \/ ReplayModelCallRaises
    \/ ReplayDispatch
    \/ ReplayStep

SpecPair == Init /\ [][NextPair]_vars

(***************************************************************************)
(* Two requests served at the same time: every name bound inside           *)
(* run_analysis / run_analysis_streaming / analyze belongs to the thread    *)
(* that runs it and is put aside when the other thread runs; the data       *)
(* clients and their call log are module-level and shared                   *)
(***************************************************************************)
\* the ticker parameter of each of the two requests
ConcTickers == <<Str(<<" ", "a", "B", " ">>), Str(<<"b", "a">>)>>

ConcTexts == <<"A", "B">>

\* one request of each variant
ConcRoutes == <<"stream", "analyze">>

\* what the model answers to request r
ConcContents(r) ==
    {<<TextBlock(ConcTexts[r])>>,
     <<ToolUse("get_stock_quote", Input(Str(<<"a", "B">>), Absent, Absent))>>}

RequestConc == Request(ConcRoutes[me], ConcTickers[me])

ModelCallConc ==
    \E sr \in StopReasons : \E content \in ConcContents(me) :
        /\ Len(content) <= MaxBlocks - BlocksEmitted(messages)
        /\ ModelCallWith(sr, content)

\* Switch, had messages been a module-level list
Switch_SharedMessages ==
    /\ parked' = frame
    /\ me' = 3 - me
    /\ pc' = parked.pc
    /\ req' = parked.req
    /\ http' = parked.http
    /\ response' = parked.response
    /\ i' = parked.i
    /\ tool_results' = parked.tool_results
    /\ final_response' = parked.final_response
    /\ events' = parked.events
    /\ calls' = parked.calls
    /\ dispatched' = parked.dispatched
    /\ UNCHANGED <<messages, client_calls, probe, first, sec, side>>

\* the running thread is put aside and the other thread runs
Switch ==
    /\ parked' = frame
    /\ me' = 3 - me
    /\ pc' = parked.pc
    /\ req' = parked.req
    /\ http' = parked.http
    /\ messages' = parked.messages
    /\ response' = parked.response
    /\ i' = parked.i
    /\ tool_results' = parked.tool_results
    /\ final_response' = parked.final_response
    /\ events' = parked.events
    /\ calls' = parked.calls
    /\ dispatched' = parked.dispatched
    /\ UNCHANGED <<client_calls, probe, first, sec, side>>

NextConc ==
    \/ RequestConc
    \/ ModelCallConc
    \/ ModelCallRaises
    \/ LoopStep
    \/ Switch

SpecConc == Init /\ [][NextConc]_vars

(***************************************************************************)
(* process_tool_call on its own: every tool name with every argument       *)
(* mapping and every provider outcome                                      *)
(***************************************************************************)
ProbeTickers ==
    {NoValue, NullValue, IntValue, Str(<<>>), Str(<<"a", "B">>), Str(<<"b", " ", "A">>)}

ProbeStatementTypes == {Absent, "income", "balance", "cashflow", "all", "bogus"}

ProbeFilingTypes == {Absent, "10-K", "10-Q", "8-K"}

InitDispatch ==
    /\ pc = "idle"
    /\ req = NoRequest
    /\ http = NoHttp
    /\ messages = <<>>
    /\ response = NoResponse
    /\ i = 0
    /\ tool_results = <<>>
    /\ final_response = ""
    /\ events = <<>>
    /\ calls = <<>>
    /\ dispatched = <<>>
    /\ client_calls = <<>>
    /\ \E name \in ToolNames, ticker \in ProbeTickers, st \in ProbeStatementTypes,
          ft \in ProbeFilingTypes, outcome \in Outcomes :
          probe = [NoProbe EXCEPT !.state = "ready", !.name = name,
                                  !.input = Input(ticker, st, ft),
                                  !.outcome = outcome]
    /\ first = NoFirst
    /\ parked = InitFrame
    /\ me = 1
    /\ sec = NoSec
    /\ OthersOff

ProbeDispatch ==
    /\ probe.state = "ready"
    /\ LET r == process_tool_call(probe.name, probe.input, probe.outcome)
       IN  probe' = [probe EXCEPT !.state = IF r.raised THEN "raised" ELSE "returned",
                                  !.out = r]
    /\ UNCHANGED <<pc, req, http, messages, response, i, tool_results,
                   final_response, events, calls, dispatched, client_calls,
                   first, parked, me, sec, side>>

NextDispatch == ProbeDispatch

SpecDispatch == InitDispatch /\ [][NextDispatch]_vars

(***************************************************************************)
(* SECFetcher._get_cik on its own: every spelling of a ticker with every   *)
(* directory and every outcome of the fetch                                *)
(***************************************************************************)
SecTickers ==
    {<<>>, <<"a", "b">>, <<"A", "b">>, <<"a", "B">>, <<"A", "B">>, <<"b">>, <<"B">>,
     <<"b", "a">>}

\* an entry of company_tickers.json: its ticker is a string, null or
\* missing, its cik_str a number or missing
Entries ==
    [ticker : {Str(<<"A", "B">>), Str(<<"a", "B">>), Str(<<"B">>), NoValue, NullValue},
     cik_str : {Some(320193), Some(7), None}]

InitCik ==
    /\ LoopIdle
    /\ probe = NoProbe
    /\ OthersOff
    /\ \E ticker \in SecTickers, fetch \in Fetches,
          entries \in SeqsUpTo(Entries, MaxEntries) :
          sec = [NoSec EXCEPT !.state = "ready", !.method = "_get_cik",
                              !.ticker = ticker,
                              !.env.dir = [fetch |-> fetch, entries |-> entries]]

GetCik ==
    /\ sec.state = "ready"
    /\ sec.method = "_get_cik"
    /\ sec' = [sec EXCEPT !.state = "returned",
                          !.cik = get_cik(sec.ticker, sec.env.dir),
                          !.requests = <<"company_tickers">>]
    /\ UNCHANGED <<loop, probe, first, parked, me, side>>

NextCik == GetCik

SpecCik == InitCik /\ [][NextCik]_vars

(***************************************************************************)
(* SECFetcher.get_filing on its own                                        *)
(***************************************************************************)
Forms == {"10-Q", "10-K", "10-Q/A"}

ListNames == {"filingDate", "accessionNumber", "primaryDocument"}

\* the k-th value of a list of the filing history
ListValue(name, k) == <<name, k>>

\* a list of the filing history that goes with n forms: as long as the
\* list of forms, or one shorter
ListFor(name, n, short) ==
    [k \in 1..(IF name \in short /\ n > 0 THEN n - 1 ELSE n) |-> ListValue(name, k)]

Recents ==
    {[form |-> forms,
      filingDate |-> ListFor("filingDate", Len(forms), short),
      accessionNumber |-> ListFor("accessionNumber", Len(forms), short),
      primaryDocument |-> ListFor("primaryDocument", Len(forms), short)] :
        forms \in SeqsUpTo(Forms, MaxFilings), short \in SUBSET ListNames}

Ob(end, val) == [end |-> end, val |-> val]

\* an observation has an end date or none and a value or none
Observations ==
    [end : {None, Some(<<"0", "3">>), Some(<<"0", "9">>), Some(<<"1">>)},
     val : {None, Some(1), Some(2)}]

SomeFacts ==
    [key \in FactKeys |->
        IF key = "Assets"
        THEN <<Ob(Some(<<"0", "3">>), Some(1)), Ob(Some(<<"0", "9">>), Some(2))>>
        ELSE <<Ob(Some(<<"1">>), Some(1))>>]

FailedFetches == Fetches \ {HttpResponse(200, TRUE)}

DirResponses ==
    {[fetch |-> HttpResponse(200, TRUE),
      entries |-> <<[ticker |-> Str(<<"A", "B">>), cik_str |-> Some(320193)]>>],
     [fetch |-> HttpResponse(200, TRUE), entries |-> <<>>],
     [fetch |-> NetworkError, entries |-> <<>>]}

SubResponses ==
    {[fetch |-> f, name |-> None, recent |-> NoRecent] : f \in FailedFetches}
    \cup {[fetch |-> HttpResponse(200, TRUE), name |-> name, recent |-> recent] :
             name \in {None, Some(<<"N">>)}, recent \in Recents}

FactsResponses ==
    {[fetch |-> f, us_gaap |-> NoEnv.facts.us_gaap] : f \in FailedFetches}
    \cup {[fetch |-> HttpResponse(200, TRUE), us_gaap |-> g] :
             g \in {NoEnv.facts.us_gaap, SomeFacts}}

InitFiling ==
    /\ LoopIdle
    /\ probe = NoProbe
    /\ OthersOff
    /\ \E ticker \in {<<"a", "b">>, <<"A", "B">>}, filing_type \in {"10-Q", "10-K"},
          dir \in DirResponses, sub \in SubResponses, facts \in FactsResponses,
          legacy \in BOOLEAN :
          sec = [NoSec EXCEPT !.state = "ready", !.method = "get_filing",
                              !.ticker = ticker, !.filing_type = filing_type,
                              !.env = [dir |-> dir, sub |-> sub, facts |-> facts,
                                       legacy |-> legacy]]

GetFiling ==
    /\ sec.state = "ready"
    /\ sec.method = "get_filing"
    /\ LET r == get_filing(sec.ticker, sec.filing_type, sec.env)
       IN  sec' = [sec EXCEPT !.state = "returned", !.out = r.out,
                              !.requests = r.requests]
    /\ UNCHANGED <<loop, probe, first, parked, me, side>>

NextFiling == GetFiling

SpecFiling == InitFiling /\ [][NextFiling]_vars

(***************************************************************************)
(* get_filing with every list of observations: one fact at a time is given *)
(* every list, the other three one of two lists each                       *)
(***************************************************************************)
FewLists ==
    {<<>>, <<Ob(Some(<<"0", "9">>), Some(2)), Ob(Some(<<"1">>), Some(1))>>}

InitFacts ==
    /\ LoopIdle
    /\ probe = NoProbe
    /\ OthersOff
    /\ \E key \in FactKeys, data \in SeqsUpTo(Observations, MaxObs),
          others \in [FactKeys -> FewLists] :
          sec = [NoSec EXCEPT
                   !.state = "ready", !.method = "get_filing",
                   !.ticker = <<"A", "B">>, !.filing_type = "10-Q",
                   !.env = [dir |-> [fetch |-> HttpResponse(200, TRUE),
                                     entries |-> <<[ticker |-> Str(<<"A", "B">>),
                                                    cik_str |-> Some(320193)]>>],
                            sub |-> [fetch |-> HttpResponse(200, TRUE),
                                     name |-> Some(<<"N">>), recent |-> NoRecent],
                            facts |-> [fetch |-> HttpResponse(200, TRUE),
                                       us_gaap |-> [others EXCEPT ![key] = data]],
                            legacy |-> FALSE]]

NextFacts == GetFiling

SpecFacts == InitFacts /\ [][NextFacts]_vars

(***************************************************************************)
(* get_filing and get_company_facts with every way the identifier of the   *)
(* ticker is or is not resolved                                            *)
(***************************************************************************)
LookupEntries ==
    {<<>>,
     <<[ticker |-> Str(<<"A", "B">>), cik_str |-> Some(320193)]>>,
     <<[ticker |-> Str(<<"B">>), cik_str |-> Some(7)]>>,
     <<[ticker |-> NullValue, cik_str |-> Some(7)],
       [ticker |-> Str(<<"A", "B">>), cik_str |-> Some(320193)]>>,
     <<[ticker |-> Str(<<"A", "B">>), cik_str |-> None]>>}

LookupDirs == [fetch : Fetches, entries : LookupEntries]

LookupSubs ==
    {[fetch |-> NetworkError, name |-> None, recent |-> NoRecent],
     [fetch |-> HttpResponse(200, TRUE), name |-> Some(<<"N">>), recent |-> NoRecent]}

InitLookup ==
    /\ LoopIdle
    /\ probe = NoProbe
    /\ OthersOff
    /\ \E method \in {"get_filing", "get_company_facts"},
          ticker \in {<<"a", "b">>, <<"A", "B">>},
          dir \in LookupDirs, sub \in LookupSubs, facts \in FactsResponses :
          sec = [NoSec EXCEPT !.state = "ready", !.method = method,
                              !.ticker = ticker, !.filing_type = "10-Q",
                              !.env = [dir |-> dir, sub |-> sub, facts |-> facts,
                                       legacy |-> FALSE]]

GetCompanyFacts ==
    /\ sec.state = "ready"
    /\ sec.method = "get_company_facts"
    /\ LET r == get_company_facts(sec.ticker, sec.env)
       IN  sec' = [sec EXCEPT !.state = "returned", !.out = r.out,
                              !.requests = r.requests]
    /\ UNCHANGED <<loop, probe, first, parked, me, side>>

NextLookup == GetFiling \/ GetCompanyFacts

SpecLookup == InitLookup /\ [][NextLookup]_vars

(***************************************************************************)
(* StockDataFetcher: one call of get_financials, get_quote or              *)
(* get_key_metrics with what the provider holds                            *)
(***************************************************************************)
StockTickers == {<<"a", "b">>, <<"A", "B">>}

StatementTypes == {"income", "balance", "cashflow", "all", "bogus"}

\* a statement is None, a table without columns, a table without rows or a
\* table with cells, one of them NaN
Tables ==
    {NoTable,
     DataFrame(<<>>, <<"Revenue">>, <<>>),
     DataFrame(<<"2024">>, <<>>, <<<<>>>>),
     DataFrame(<<"2024", "2023">>, <<"Revenue">>, <<<<Num(5)>>, <<NaN>>>>)}

InfoValues == {NoValue, NullValue, Num(0), Num(5)}

\* what the keys that are not under test hold
InfoRest == {NoValue, Num(7)}

InitStock ==
    /\ LoopIdle
    /\ probe = NoProbe
    /\ sec = NoSec
    /\ finnhub = NoFinnhub
    /\ boot = NoBoot
    /\ \E ticker \in StockTickers, raises \in BOOLEAN :
          \/ \E st \in StatementTypes, tables \in [TableAttrs -> Tables] :
                /\ raises => tables = NoStockEnv.tables
                /\ stock = [StockCall EXCEPT !.method = "get_financials",
                                           !.ticker = ticker, !.statement_type = st,
                                           !.env.raises = raises, !.env.tables = tables]
          \/ \E method \in {"get_quote", "get_key_metrics"},
                k \in 1..Len(QuoteFields), a \in InfoValues, b \in InfoValues,
                rest \in InfoRest :
                LET keys == IF method = "get_quote"
                            THEN <<QuoteFields[k].primary, QuoteFields[k].secondary>>
                            ELSE <<"leveredFreeCashflow", "freeCashflow">>
                IN  /\ method = "get_key_metrics" => k = 1
                    /\ stock = [StockCall EXCEPT
                                  !.method = method, !.ticker = ticker,
                                  !.env.raises = raises,
                                  !.env.info = [key \in InfoKeys |->
                                                  IF key = keys[1] THEN a
                                                  ELSE IF key = keys[2] THEN b
                                                  ELSE rest]]

GetFinancials ==
    /\ stock.state = "ready"
    /\ stock.method = "get_financials"
    /\ stock' = [stock EXCEPT !.state = "returned",
                              !.out = get_financials(stock.ticker, stock.statement_type,
                                                     stock.env)]
    /\ UNCHANGED <<loop, probe, first, parked, me, sec, finnhub, boot>>

GetQuote ==
    /\ stock.state = "ready"
    /\ stock.method = "get_quote"
    /\ stock' = [stock EXCEPT !.state = "returned",
                              !.out = get_quote(stock.ticker, stock.env)]
    /\ UNCHANGED <<loop, probe, first, parked, me, sec, finnhub, boot>>

GetKeyMetrics ==
    /\ stock.state = "ready"
    /\ stock.method = "get_key_metrics"
    /\ stock' = [stock EXCEPT !.state = "returned",
                              !.out = get_key_metrics(stock.ticker, stock.env)]
    /\ UNCHANGED <<loop, probe, first, parked, me, sec, finnhub, boot>>

NextStock == GetFinancials \/ GetQuote \/ GetKeyMetrics

SpecStock == InitStock /\ [][NextStock]_vars

(***************************************************************************)
(* FinnhubFetcher: the fetcher is built from the environment, then         *)
(* get_realtime_quote is called once                                       *)
(***************************************************************************)
\* FINNHUB_API_KEY is unset, empty or set
ApiKeys == {None, Some(""), Some("key")}

FinnhubTickers == {Str(<<"a", "b">>), Str(<<"A", "B">>), NullValue}

Bodies ==
    {[key \in FinnhubKeys |-> Num(5)],
     [key \in FinnhubKeys |-> IF key = "c" THEN Num(0) ELSE NullValue],
     NoData}

Answers ==
    {Answer(raised, 0, FALSE, FALSE, NoData) : raised \in {"ConnectionError", "Timeout"}}
    \cup {Answer("", code, FALSE, FALSE, NoData) : code \in {200, 404, 500}}
    \cup {Answer("", code, TRUE, FALSE, NoData) : code \in {200, 500}}
    \cup {Answer("", code, TRUE, TRUE, data) : code \in {200, 401, 429}, data \in Bodies}

InitFinnhub ==
    /\ LoopIdle
    /\ probe = NoProbe
    /\ sec = NoSec
    /\ stock = NoStock
    /\ boot = NoBoot
    /\ \E ticker \in FinnhubTickers, answer \in Answers :
          finnhub = [FinnhubCall EXCEPT !.ticker = ticker, !.answer = answer]

\* FinnhubFetcher(): self.api_key = os.getenv("FINNHUB_API_KEY")
NewFetcher ==
    /\ finnhub.state = "new"
    /\ \E api_key \in ApiKeys :
          finnhub' = [finnhub EXCEPT !.state = "ready", !.api_key = api_key]
    /\ UNCHANGED <<loop, probe, first, parked, me, sec, stock, boot>>

GetRealtimeQuote ==
    /\ finnhub.state = "ready"
    /\ LET r == get_realtime_quote(finnhub.api_key, finnhub.ticker, finnhub.answer)
       IN  finnhub' = [finnhub EXCEPT !.state = "returned", !.out = r.out,
                                      !.requests = r.requests]
    /\ UNCHANGED <<loop, probe, first, parked, me, sec, stock, boot>>

NextFinnhub == NewFetcher \/ GetRealtimeQuote

SpecFinnhub == InitFinnhub /\ [][NextFinnhub]_vars

(***************************************************************************)
(* The start of the process: python run.py or python app.py with every     *)
(* state of the environment, then one request with one model call          *)
(***************************************************************************)
\* the script the process is started with
Entries_Boot == {"run.py", "app.py"}

\* .env is there, or only .env.example, or neither
EnvFiles == {"present", "example_only", "none"}

\* what os.getenv("ANTHROPIC_API_KEY") returns once load_dotenv() has run
AnthropicKeys == {None, Some(""), Some("your-api-key-here"), Some("sk-key")}

InitBoot ==
    /\ LoopIdle
    /\ probe = NoProbe
    /\ sec = NoSec
    /\ stock = NoStock
    /\ finnhub = NoFinnhub
    /\ \E entry \in Entries_Boot, env_file \in EnvFiles, key \in AnthropicKeys,
          finnhub_key \in {None, Some("key")}, deps \in {"present", "missing"},
          strict_sdk \in BOOLEAN :
          boot = [BootStart EXCEPT !.entry = entry,
                                   !.env_file = env_file, !.anthropic_key = key,
                                   !.finnhub_key = finnhub_key, !.deps = deps,
                                   !.strict_sdk = strict_sdk]

Exit(code) == [boot EXCEPT !.state = "exited", !.exit_code = code]

\* run.py: if not os.path.exists('.env'): ...; sys.exit(1)
CheckEnvFile ==
    /\ boot.state = "start"
    /\ boot.entry = "run.py"
    /\ boot' = IF boot.env_file = "present" THEN [boot EXCEPT !.state = "key"]
               ELSE [Exit(1) EXCEPT !.created = (boot.env_file = "example_only")]
    /\ UNCHANGED <<loop, probe, first, parked, me, sec, stock, finnhub>>

\* run.py: load_dotenv(); if not api_key or api_key == 'your-api-key-here'
CheckKey ==
    /\ boot.state = "key"
    /\ boot' = IF key_not_set(boot.anthropic_key) THEN Exit(1)
               ELSE [boot EXCEPT !.state = "deps"]
    /\ UNCHANGED <<loop, probe, first, parked, me, sec, stock, finnhub>>

\* run.py: the imports are tried and the requirements installed when one
\* fails; check_call raises when the installation fails
CheckDeps ==
    /\ boot.state = "deps"
    /\ \E installed \in BOOLEAN :
          boot' = IF boot.deps = "present" \/ installed
                  THEN [boot EXCEPT !.state = "import"]
                  ELSE Exit(1)
    /\ UNCHANGED <<loop, probe, first, parked, me, sec, stock, finnhub>>

\* the module-level statements of app.py, then app.run: from run.py after
\* its checks, at once when app.py is the script.  Whether
\* anthropic.Anthropic(api_key=None) raises depends on the installed
\* version of the library.
ImportApp ==
    /\ \/ boot.state = "import"
       \/ boot.state = "start" /\ boot.entry = "app.py"
    /\ boot' = IF boot.entry = "app.py" /\ boot.deps = "missing" THEN Exit(1)
               ELSE IF boot.anthropic_key = None /\ boot.strict_sdk THEN Exit(1)
               ELSE [boot EXCEPT !.state = "serving", !.client_key = boot.anthropic_key]
    /\ UNCHANGED <<loop, probe, first, parked, me, sec, stock, finnhub>>

\* the server takes one request and the loop makes its model calls
Serve ==
    /\ boot.state = "serving"
    /\ \/ \E route \in Routes : Request(route, Str(<<"a">>))
       \/ \E sr \in StopReasons : \E block \in LiveBlocks : ModelCallWith(sr, <<block>>)
       \/ ModelCallRaises
       \/ LoopStep

NextBoot == CheckEnvFile \/ CheckKey \/ CheckDeps \/ ImportApp \/ Serve

SpecBoot == InitBoot /\ [][NextBoot]_vars

(***************************************************************************)
(* Properties                                                              *)
(***************************************************************************)
IsToolUse(block) == block.type = "tool_use"

IsText(block) == block.type = "text"

IsDone(event) == event.type = "done"

\* the tool_use blocks of the assistant turns of a conversation, in order
RECURSIVE Invocations(_)
Invocations(msgs) ==
    IF msgs = <<>> THEN <<>>
    ELSE (IF Head(msgs).role = "assistant"
          THEN SelectSeq(Head(msgs).content, IsToolUse)
          ELSE <<>>)
         \o Invocations(Tail(msgs))

\* C1: when a streaming run has gone through its tool-use turns (n tool
\* invocations in all) and a terminal turn with m text segments, the events
\* are n status events, one per invocation in invocation order, then m
\* content events carrying the segments' texts in order, then one done event.
C1_StreamEventSequence ==
    (pc = "done" /\ req.route = "stream") =>
        LET inv == Invocations(messages)
            txt == SelectSeq(response.content, IsText)
            n == Len(inv)
            m == Len(txt)
        IN  /\ Len(events) = n + m + 1
            /\ \A k \in 1..n :
                  /\ events[k].type = "status"
                  /\ events[k].message[2] = inv[k].name
            /\ \A k \in 1..m :
                  events[n + k] = [type |-> "content", text |-> txt[k].text]
            /\ events[n + m + 1] = [type |-> "done"]

\* one tool-use turn with one invocation, then a terminal turn with one text
C1_Witness ==
    /\ pc = "done"
    /\ req.route = "stream"
    /\ Len(calls) = 2
    /\ Len(Invocations(messages)) = 1
    /\ Len(SelectSeq(response.content, IsText)) = 1
    /\ Len(events) = 3
    /\ events[1].type = "status"
    /\ events[2].type = "content"
    /\ events[3].type = "done"

DoneCount == Len(SelectSeq(events, IsDone))

StreamClosed == req.route = "stream" /\ pc \in {"done", "failed"}

StatusLabel(name) ==
    CASE name = "get_realtime_quote" -> "Getting real-time price"
      [] name = "get_stock_quote" -> "Fetching stock data"
      [] name = "get_company_info" -> "Getting company info"
      [] name = "get_financial_statements" -> "Loading financials"
      [] name = "get_sec_filing" -> "Fetching SEC filing"
      [] name = "get_key_metrics" -> "Getting metrics"
      [] OTHER -> "Working..."

\* C3: the status event of a tool invocation carries the label of the tool
\* from the table, and 'Working...' for a name outside the table.
C3_StatusCarriesLabel ==
    pc = "dispatch" =>
        events[Len(events)] =
            [type |-> "status", message |-> <<StatusLabel(response.content[i].name)>>]

(***************************************************************************)
(* Properties of the dispatcher (SpecDispatch)                             *)
(***************************************************************************)
\* the six tool names of the catalog
CatalogNames ==
    {"get_realtime_quote", "get_stock_quote", "get_company_info",
     "get_financial_statements", "get_sec_filing", "get_key_metrics"}

ProbeEnded == probe.state \in {"returned", "raised"}

\* C4: for a tool name outside the catalog and any argument mapping, also
\* one with no ticker or with a ticker that is null or no string, the
\* dispatcher returns the error 'Unknown tool: <name>', does not raise and
\* calls no data client.
C4_UnknownToolIsAnErrorValue ==
    (ProbeEnded /\ probe.name \notin CatalogNames) =>
        /\ ~probe.out.raised
        /\ probe.out.result.kind = "error"
        /\ probe.out.result.error = "Unknown tool: " \o probe.name
        /\ probe.out.calls = <<>>

\* the client and the method a catalog tool stands for
CatalogTarget(name) ==
    CASE name = "get_realtime_quote" ->
            [client |-> "finnhub_fetcher", method |-> "get_realtime_quote"]
      [] name = "get_stock_quote" ->
            [client |-> "stock_fetcher", method |-> "get_quote"]
      [] name = "get_company_info" ->
            [client |-> "stock_fetcher", method |-> "get_company_info"]
      [] name = "get_financial_statements" ->
            [client |-> "stock_fetcher", method |-> "get_financials"]
      [] name = "get_sec_filing" ->
            [client |-> "sec_fetcher", method |-> "get_filing"]
      [] name = "get_key_metrics" ->
            [client |-> "stock_fetcher", method |-> "get_key_metrics"]

\* C5: for each of the six catalog names (and a ticker that is a string or
\* missing) the dispatcher calls exactly one method of one client, once,
\* the one the name stands for, and returns what that method returned; it
\* does not answer 'Unknown tool'.
C5_CatalogToolCallsItsMethod ==
    (/\ ProbeEnded
     /\ probe.name \in CatalogNames
     /\ probe.input.ticker.k \in {"str", "absent"}) =>
        /\ ~probe.out.raised
        /\ Len(probe.out.calls) = 1
        /\ probe.out.calls[1].client = CatalogTarget(probe.name).client
        /\ probe.out.calls[1].method = CatalogTarget(probe.name).method
        /\ probe.out.result.kind = probe.outcome
        /\ probe.out.result.by = CatalogTarget(probe.name).method
        /\ probe.out.result.error # "Unknown tool: " \o probe.name

\* u is s with every lower-case letter replaced by its upper-case letter
IsUpperCaseOf(u, s) ==
    /\ Len(u) = Len(s)
    /\ \A k \in 1..Len(s) :
          /\ u[k] \notin {"a", "b"}
          /\ \/ u[k] = s[k]
             \/ <<s[k], u[k]>> \in {<<"a", "A">>, <<"b", "B">>}

IsBlankTicker(raw) ==
    \/ raw.k = "absent"
    \/ raw.k = "str" /\ \A k \in 1..Len(raw.v) : raw.v[k] = " "

\* C7: a request to /analyze/stream or /analyze whose ticker is missing,
\* empty or white space only is answered 400 'No ticker provided'; no model
\* call, no tool call and no data-client call is made for it and no event
\* stream is started.
C7_BlankTickerRejected ==
    (req.route # "none" /\ IsBlankTicker(req.ticker)) =>
        /\ pc = "rejected"
        /\ http.status = 400
        /\ http.error = "No ticker provided"
        /\ http.mimetype # "text/event-stream"
        /\ messages = <<>>
        /\ calls = <<>>
        /\ dispatched = <<>>
        /\ client_calls = <<>>
        /\ events = <<>>

C7_Witness ==
    /\ pc = "rejected"
    /\ req.route = "stream"
    /\ req.ticker = Str(<<" ", " ">>)
    /\ http.status = 400

IsPrefix(a, b) == Len(a) <= Len(b) /\ SubSeq(b, 1, Len(a)) = a

\* user, assistant, user, ...
Alternates(msgs) ==
    \A k \in 1..Len(msgs) :
        msgs[k].role = IF k % 2 = 1 THEN "user" ELSE "assistant"

\* C8: the conversation starts with one user turn; every tool-use turn
\* appends the assistant turn holding the raw response and then the user
\* turn holding the collected results; no turn is changed or removed: the
\* n-th model call receives 2n-1 turns with alternating roles, and what a
\* call received is a prefix of what the next call receives and of the
\* conversation ever after.
C8_ConversationOnlyGrows ==
    /\ pc \notin {"idle", "rejected", "escaped"} =>
          /\ Len(messages) % 2 = 1
          /\ Alternates(messages)
          /\ Len(messages[1].content) = 1
          /\ messages[1].content[1].type = "prompt"
    /\ \A n \in 1..Len(calls) :
          LET m == calls[n].messages
          IN  /\ Len(m) = 2 * n - 1
              /\ Alternates(m)
              /\ IsPrefix(m, messages)
              /\ n > 1 => IsPrefix(calls[n - 1].messages, m)
    /\ Len(calls) >= 1 =>
          Len(messages) \in {2 * Len(calls) - 1, 2 * Len(calls) + 1}
    /\ (pc = "model" /\ Len(calls) >= 1) =>
          /\ messages[Len(messages) - 1] =
                [role |-> "assistant", content |-> response.content]
          /\ messages[Len(messages)] = [role |-> "user", content |-> tool_results]

\* the third model call of a request has received five turns
C8_Witness ==
    /\ Len(calls) = 3
    /\ Len(calls[3].messages) = 5
    /\ Len(messages) = 5

\* the dispatcher call d was made for the tool_use block b
CallFor(d, b) == d.id = b.id /\ d.name = b.name /\ d.input = b.input

\* C9: in every tool-use turn the dispatcher is run for the tool_use blocks
\* of the response one after the other in the order of the blocks, once
\* each, and for no other block; the user turn appended after the turn holds
\* one tool_result block per invocation, in the same order, tagged with the
\* identifier of the invocation and holding the result of its call.
C9_OneResultPerInvocationInOrder ==
    \A n \in 1..Len(calls) :
        LET InTurn(d) == d.call = n
            dn == SelectSeq(dispatched, InTurn)
        IN  IF 2 * n + 1 <= Len(messages)
            THEN LET tus == SelectSeq(messages[2 * n].content, IsToolUse)
                     res == messages[2 * n + 1].content
                 IN  /\ Len(dn) = Len(tus)
                     /\ Len(res) = Len(tus)
                     /\ \A k \in 1..Len(tus) :
                           /\ CallFor(dn[k], tus[k])
                           /\ res[k].type = "tool_result"
                           /\ res[k].tool_use_id = tus[k].id
                           /\ res[k].content.json = dn[k].result
            ELSE LET cur == IF pc \in {"block", "dispatch"}
                            THEN SelectSeq(response.content, IsToolUse)
                            ELSE <<>>
                 IN  /\ pc \in {"block", "dispatch"} =>
                           /\ Len(dn) <= Len(cur)
                           /\ \A k \in 1..Len(dn) : CallFor(dn[k], cur[k])
                           /\ Len(tool_results) = Len(dn)
                           /\ \A k \in 1..Len(dn) :
                                 /\ tool_results[k].tool_use_id = cur[k].id
                                 /\ tool_results[k].content.json = dn[k].result
                     /\ pc \in {"final", "done"} => dn = <<>>

\* run_analysis has appended the results of a turn of two invocations
C9_Witness ==
    /\ req.route = "analyze"
    /\ Len(messages) >= 3
    /\ Len(SelectSeq(messages[2].content, IsToolUse)) = 2
    /\ Len(messages[3].content) = 2
    /\ messages[3].content[2].tool_use_id = messages[2].content[2].id

\* C10: a failing tool call never ends the loop: whatever fails in a
\* dispatched call (unknown tool, provider failure, bad arguments), the
\* call returns, its failure becomes the content of the tool_result block of
\* its invocation, and the loop does not end in a failure because of it.
C10_ToolErrorNeverEndsLoop ==
    \A k \in 1..Len(dispatched) :
        LET d == dispatched[k]
        IN  /\ ~d.raised
            /\ 2 * d.call + 1 <= Len(messages) =>
                  \E j \in 1..Len(messages[2 * d.call + 1].content) :
                      /\ messages[2 * d.call + 1].content[j].tool_use_id = d.id
                      /\ messages[2 * d.call + 1].content[j].content.json = d.result

(***************************************************************************)
(* Termination                                                             *)
(***************************************************************************)
\* the texts of the text blocks of a response, in order
TextSegments(content) ==
    LET texts == SelectSeq(content, IsText)
    IN  [k \in 1..Len(texts) |-> texts[k].text]

\* the texts of the content events, in order
ContentTexts(evs) ==
    LET cs == SelectSeq(evs, LAMBDA e : e.type = "content")
    IN  [k \in 1..Len(cs) |-> cs[k].text]

RECURSIVE Joined(_)
Joined(texts) ==
    IF texts = <<>> THEN "" ELSE Head(texts) \o Joined(Tail(texts))

\* tool-use turns of the conversation: each one appended two turns
ToolUseTurns == (Len(messages) - 1) \div 2

DeliveredAtDone ==
    pc = "done" =>
        /\ response.stop_reason # "tool_use"
        /\ Len(calls) = ToolUseTurns + 1
        /\ \A n \in 1..ToolUseTurns : messages[2 * n].role = "assistant"
        /\ req.route = "analyze" =>
              /\ http.status = 200
              /\ http.analysis = Joined(TextSegments(response.content))
        /\ req.route = "stream" =>
              ContentTexts(events) = TextSegments(response.content)

\* C11: the loop ends exactly when a response has a stop reason other than
\* tool_use: such a response leads to DONE when nothing raises, a tool-use
\* turn leads back to the model (or to a failure), DONE is entered from the
\* terminal turn only; at DONE the request has made one model call more than
\* it had tool-use turns, the deliverable is the texts of the last response in
\* order, and no model, tool or data-client call follows.
C11_TerminatesOnNonToolUse ==
    /\ []DeliveredAtDone
    /\ [][(pc' = "done" /\ pc # "done") =>
             (pc = "final" /\ response.stop_reason # "tool_use")]_vars
    /\ [][(pc' = "final" /\ pc # "final") =>
             (pc = "model" /\ response'.stop_reason # "tool_use")]_vars
    /\ [][pc = "done" =>
             (calls' = calls /\ dispatched' = dispatched
              /\ client_calls' = client_calls /\ pc' = "done")]_vars
    /\ (pc = "final") ~> (pc = "done")
    /\ (pc \in {"block", "dispatch"}) ~> (pc \in {"model", "failed"})

\* run_analysis has returned the text of the second response after one
\* tool-use turn
C11_Witness ==
    /\ pc = "done"
    /\ req.route = "analyze"
    /\ Len(calls) = 2
    /\ Len(dispatched) = 1
    /\ http.analysis = "A"

(***************************************************************************)
(* Failures                                                                *)
(***************************************************************************)
NoDeliverable ==
    /\ ~http.success
    /\ http.analysis = ""
    /\ http.status # 200 \/ req.route = "stream"
    /\ \A k \in 1..Len(events) : events[k].type = "status"

\* C12: nothing is retried: no two model calls of a request receive the
\* same conversation and no invocation is dispatched twice, whatever its
\* outcome; a failed model call is the last call of its request: the request
\* then has no deliverable, and no model, tool or data-client call follows.
C12_NoRetry ==
    /\ [](\A j, k \in 1..Len(calls) :
              j < k => calls[j].messages # calls[k].messages)
    /\ [](\A j, k \in 1..Len(dispatched) :
              j < k => <<dispatched[j].call, dispatched[j].id>>
                          # <<dispatched[k].call, dispatched[k].id>>)
    /\ [](pc = "failed" => NoDeliverable)
    /\ [][(pc = "model" /\ pc' = "failed") => Len(calls') = Len(calls) + 1]_vars
    /\ [][pc = "failed" =>
             (calls' = calls /\ dispatched' = dispatched
              /\ client_calls' = client_calls /\ pc' = "failed")]_vars

\* the second model call of a request has failed, after a tool call that
\* had failed too
C12_Witness ==
    /\ pc = "failed"
    /\ Len(calls) = 2
    /\ Len(dispatched) = 1
    /\ ~dispatched[1].raised
    /\ dispatched[1].result.kind = "error"

(***************************************************************************)
(* The two variants                                                        *)
(***************************************************************************)
\* C13: given the ticker, the model responses and the tool results of a
\* finished run of the streaming variant, the non-streaming variant makes the
\* same model calls with the same conversations (the first user turn
\* included) and the same dispatcher calls, ends the same way, and returns
\* the texts of the content events of the streaming run joined in order.
C13_SameStateMachine ==
    first.taken =>
        /\ IsPrefix(calls, first.frame.calls)
        /\ IsPrefix(dispatched, first.frame.dispatched)
        /\ pc = "model" => Len(calls) < Len(first.frame.calls)
        /\ pc \in {"done", "failed"} =>
              /\ pc = first.frame.pc
              /\ calls = first.frame.calls
              /\ dispatched = first.frame.dispatched
        /\ pc = "done" =>
              http.analysis = Joined(ContentTexts(first.frame.events))

(***************************************************************************)
(* POST /analyze                                                           *)
(***************************************************************************)
\* str(e) of the exception that ended the loop
RaisedMessage ==
    IF dispatched # <<>> /\ dispatched[Len(dispatched)].raised
    THEN dispatched[Len(dispatched)].result.error
    ELSE "APIError"

\* C14: no exception escapes analyze: whatever is raised while it handles a
\* request is answered 500 with the message of the exception as error; a run
\* that completes is answered 200 with success true, the text of the
\* analysis and the upper-cased ticker.
C14_AnalyzeCatchesEverything ==
    req.route = "analyze" =>
        /\ pc # "escaped"
        /\ pc = "failed" =>
              /\ http.status = 500
              /\ http.error = RaisedMessage
              /\ ~http.success
        /\ pc = "done" =>
              /\ http.status = 200
              /\ http.success
              /\ http.error = ""
              /\ http.analysis = Joined(TextSegments(response.content))
              /\ IsUpperCaseOf(http.ticker, strip(req.ticker.v))

(***************************************************************************)
(* Concurrent requests                                                     *)
(***************************************************************************)
\* block b was returned to request r by call n of the request with locals f
OwnBlock(f, r, n, b) ==
    /\ b.type = "text" => b.text = ConcTexts[r]
    /\ b.type = "tool_use" =>
          /\ b.id[1] = n
          /\ \E k \in 1..Len(f.dispatched) :
                f.dispatched[k].call = n /\ f.dispatched[k].id = b.id

\* results is what the dispatcher returned for call n of the request with
\* locals f
OwnResults(f, n, results) ==
    LET own == SelectSeq(f.dispatched, LAMBDA d : d.call = n)
    IN  /\ Len(results) = Len(own)
        /\ \A j \in 1..Len(own) :
              /\ results[j].tool_use_id = own[j].id
              /\ results[j].content.json = own[j].result

\* the conversation m is made of what request r created and nothing else
OwnConversation(f, r, m) ==
    /\ Len(m) % 2 = 1
    /\ m[1] = first_turn(f.req.route, request_ticker(ConcTickers[r]))
    /\ \A n \in 1..((Len(m) - 1) \div 2) :
          /\ m[2 * n].role = "assistant"
          /\ \A j \in 1..Len(m[2 * n].content) :
                OwnBlock(f, r, n, m[2 * n].content[j])
          /\ m[2 * n + 1].role = "user"
          /\ OwnResults(f, n, m[2 * n + 1].content)

Private(f, r) ==
    /\ f.req.route # "none" =>
          f.req = [route |-> ConcRoutes[r], ticker |-> ConcTickers[r]]
    /\ \A n \in 1..Len(f.calls) :
          /\ Len(f.calls[n].messages) = 2 * n - 1
          /\ OwnConversation(f, r, f.calls[n].messages)
    /\ f.pc \in {"model", "block", "dispatch", "final", "done", "failed"} =>
          OwnConversation(f, r, f.messages)
    /\ \A k \in 1..Len(f.events) :
          /\ f.events[k].type = "content" => f.events[k].text = ConcTexts[r]
          /\ f.events[k].type = "status" =>
                f.events[k] = status_event("get_stock_quote")
    /\ f.req.route = "stream" =>
          Len(SelectSeq(f.events, LAMBDA e : e.type = "status"))
             \in {Len(f.dispatched), Len(f.dispatched) + 1}
    /\ f.req.route # "stream" => f.events = <<>>
    /\ f.pc = "done" =>
          /\ f.req.route = "analyze" =>
                f.http.analysis = Joined(TextSegments(f.response.content))
          /\ f.req.route = "stream" =>
                ContentTexts(f.events) = TextSegments(f.response.content)

\* C15: with two requests served at the same time in any interleaving,
\* every conversation a request passes to the model consists of its own
\* first turn, the responses it received and the results of its own
\* dispatcher calls, and its events and final text are those of its own
\* responses.
C15_ConversationsArePrivate ==
    /\ Private(frame, me)
    /\ Private(parked, 3 - me)

\* both requests have made their second model call and neither has ended
C15_Witness ==
    /\ Len(calls) = 2
    /\ Len(parked.calls) = 2
    /\ pc = "block"
    /\ parked.pc = "block"
    /\ req.route # parked.req.route

(***************************************************************************)
(* The arguments of every model call                                       *)
(***************************************************************************)
\* C16: every model call of every request receives the same system
\* instructions and the same catalog of exactly six tools, the six names
\* of the catalog, together with the conversation accumulated so far.
C16_FixedInstructionsAndCatalog ==
    \A n \in 1..Len(calls) :
        /\ calls[n].system = SHKRELI_SYSTEM_PROMPT
        /\ calls[n].system = calls[1].system
        /\ calls[n].tools = calls[1].tools
        /\ Len(calls[n].tools) = 6
        /\ {calls[n].tools[k] : k \in 1..Len(calls[n].tools)} = CatalogNames
        /\ IsPrefix(calls[n].messages, messages)

(***************************************************************************)
(* SECFetcher                                                              *)
(***************************************************************************)
\* two strings differ in the case of their letters at most
SameIgnoringCase(a, b) ==
    /\ Len(a) = Len(b)
    /\ \A k \in 1..Len(a) :
          \/ a[k] = b[k]
          \/ <<a[k], b[k]>> \in {<<"a", "A">>, <<"A", "a">>, <<"b", "B">>, <<"B", "b">>}

FilingReturned == sec.state = "returned" /\ sec.method = "get_filing"

Fetched(fetch) == ~fetch.raised /\ fetch.status_code = 200 /\ fetch.decodable

\* the directory was fetched and has an entry for the ticker
Resolved ==
    /\ Fetched(sec.env.dir.fetch)
    /\ \E k \in 1..Len(sec.env.dir.entries) :
          /\ sec.env.dir.entries[k].ticker.k = "str"
          /\ SameIgnoringCase(sec.env.dir.entries[k].ticker.v, sec.ticker)

\* the company-facts request was answered: with a status other than 200,
\* or with 200 and a JSON body
FactsAnswered ==
    /\ ~sec.env.facts.fetch.raised
    /\ sec.env.facts.fetch.status_code = 200 => sec.env.facts.fetch.decodable

\* positions of the filing history whose form is the requested kind
Matches == {k \in 1..Len(sec.env.sub.recent.form) :
               sec.env.sub.recent.form[k] = sec.filing_type}

\* everything but latest_filing and the four facts is filled in
RestPopulated ==
    /\ sec.out.kind = "record"
    /\ sec.out.error = <<>>
    /\ IsUpperCaseOf(sec.out.ticker, sec.ticker)
    /\ sec.out.company_name =
          (IF sec.env.sub.name = None THEN sec.ticker ELSE sec.env.sub.name[1])
    /\ sec.out.cik # None
    /\ Len(sec.out.cik[1]) = 10
    /\ sec.out.sec_url = Some([CIK |-> sec.out.cik[1], type |-> sec.filing_type])

\* C17: latest_filing is the first entry of the filing history, in the
\* order given, whose form equals the requested kind exactly, with the date,
\* accession number and document at the same position (null where a list is
\* too short); with no such entry the result is still a full record, with
\* latest_filing null.
C17_FirstExactMatch ==
    (FilingReturned /\ Resolved /\ Fetched(sec.env.sub.fetch) /\ FactsAnswered) =>
        LET recent == sec.env.sub.recent
        IN  /\ RestPopulated
            /\ Matches = {} => sec.out.latest_filing = None
            /\ \A k \in Matches :
                  (\A m \in Matches : k <= m) =>
                      sec.out.latest_filing =
                         Some([form |-> sec.filing_type,
                               filing_date |->
                                   IF k <= Len(recent.filingDate)
                                   THEN Some(recent.filingDate[k]) ELSE None,
                               accession_number |->
                                   IF k <= Len(recent.accessionNumber)
                                   THEN Some(recent.accessionNumber[k]) ELSE None,
                               primary_document |->
                                   IF k <= Len(recent.primaryDocument)
                                   THEN Some(recent.primaryDocument[k]) ELSE None])
            /\ (Fetched(sec.env.facts.fetch) /\ sec.env.facts.us_gaap = SomeFacts) =>
                  /\ sec.out.shares_outstanding = Some(1)
                  /\ sec.out.total_assets = Some(2)
                  /\ sec.out.total_liabilities = Some(1)
                  /\ sec.out.stockholders_equity = Some(1)

\* of two 10-Q entries the first was taken, with its date, and the list of
\* documents was too short for no position that was read
C17_Witness ==
    /\ FilingReturned
    /\ sec.filing_type = "10-Q"
    /\ sec.env.sub.recent.form = <<"10-Q", "10-Q">>
    /\ Len(sec.env.sub.recent.primaryDocument) = 1
    /\ sec.out.latest_filing # None
    /\ sec.out.latest_filing[1].filing_date = Some(ListValue("filingDate", 1))

\* the company-facts request failed in some way
FactsFailed ==
    \/ sec.env.facts.fetch.raised
    \/ sec.env.facts.fetch.status_code # 200
    \/ ~sec.env.facts.fetch.decodable

\* C18: once the identifier and the filing history are fetched, a failure
\* of the company-facts request of any kind (404, another status, network
\* error, undecodable body) leaves a record with the four facts null and
\* everything else filled in, never an error.
C18_FactsFailureKeepsRecord ==
    (FilingReturned /\ Resolved /\ Fetched(sec.env.sub.fetch) /\ FactsFailed) =>
        /\ RestPopulated
        /\ (Matches = {}) = (sec.out.latest_filing = None)
        /\ sec.out.shares_outstanding = None
        /\ sec.out.total_assets = None
        /\ sec.out.total_liabilities = None
        /\ sec.out.stockholders_equity = None

\* the field of the result that holds the fact
OutFact(key) ==
    CASE key = "CommonStockSharesOutstanding" -> sec.out.shares_outstanding
      [] key = "Assets" -> sec.out.total_assets
      [] key = "Liabilities" -> sec.out.total_liabilities
      [] key = "StockholdersEquity" -> sec.out.stockholders_equity

\* every ordering of the same observations
Orderings(data) ==
    {[k \in 1..Len(data) |-> data[f[k]]] :
        f \in {g \in [1..Len(data) -> 1..Len(data)] :
                  \A a, b \in 1..Len(data) : a # b => g[a] # g[b]}}

\* positions whose end string no other end string exceeds
Latest(data) ==
    {k \in 1..Len(data) :
        \A m \in 1..Len(data) : ~str_less(end_key(data[k]), end_key(data[m]))}

\* C19 as stated: each fact is the val of an observation with the greatest
\* end string, the same val for every ordering of the observations; null for
\* an empty list.
C19_SelectionIgnoresOrder ==
    FilingReturned =>
        \A key \in FactKeys :
            LET data == sec.env.facts.us_gaap[key]
            IN  /\ data = <<>> => OutFact(key) = None
                /\ data # <<>> => \E k \in Latest(data) : OutFact(key) = data[k].val
                /\ \A other \in Orderings(data) : latest_val(other) = OutFact(key)

\* C19: each fact is the val of the first observation, in the order given,
\* among those with the greatest end string (a missing end counts as the
\* empty string); the end string selected is the same for every ordering of
\* the observations, and so is the val when the observations with the
\* greatest end string all carry the same val; an empty list gives null, and
\* each fact is selected from its own list whatever the other three hold.
C19_LatestEndFirstInInput ==
    FilingReturned =>
        \A key \in FactKeys :
            LET data == sec.env.facts.us_gaap[key]
            IN  /\ data = <<>> => OutFact(key) = None
                /\ data # <<>> =>
                      \E k \in Latest(data) :
                          /\ \A m \in Latest(data) : k <= m
                          /\ OutFact(key) = data[k].val
                          /\ \A other \in Orderings(data) :
                                /\ end_key(sorted_by_end(other)[1]) = end_key(data[k])
                                /\ (\A m \in Latest(data) : data[m].val = data[k].val)
                                      => latest_val(other) = OutFact(key)

\* the later of two observations was selected though it came second, while
\* the other facts had lists of their own
C19_Witness ==
    /\ FilingReturned
    /\ sec.env.facts.us_gaap["Liabilities"] =
          <<Ob(Some(<<"0", "9">>), Some(1)), Ob(Some(<<"1">>), Some(2))>>
    /\ sec.out.total_liabilities = Some(2)
    /\ sec.env.facts.us_gaap["Assets"] = <<>>
    /\ sec.out.total_assets = None
    /\ sec.out.shares_outstanding = Some(1)

\* C20: _get_cik returns the same result for every spelling of a ticker in
\* upper and lower case; when the directory was fetched and the first entry
\* whose symbol is the ticker, case aside, is reached by the scan, the result
\* is the cik_str of that entry in decimal, padded with zeros on the left to
\* ten digits.
C20_CaseInsensitiveLookup ==
    (sec.state = "returned" /\ sec.method = "_get_cik") =>
        LET entries == sec.env.dir.entries
            IsMatch(k) == /\ entries[k].ticker.k \in {"str", "absent"}
                          /\ SameIgnoringCase(entries[k].ticker.v, sec.ticker)
        IN  /\ \A t \in SecTickers :
                  SameIgnoringCase(t, sec.ticker) => get_cik(t, sec.env.dir) = sec.cik
            /\ Fetched(sec.env.dir.fetch) =>
                  \A k \in 1..Len(entries) :
                      (/\ IsMatch(k)
                       /\ \A m \in 1..(k - 1) :
                             ~IsMatch(m) /\ entries[m].ticker.k # "null"
                       /\ entries[k].cik_str # None) =>
                          LET digits == str_int(entries[k].cik_str[1])
                          IN  /\ sec.cik # None
                              /\ Len(sec.cik[1]) = 10
                              /\ SubSeq(sec.cik[1], 11 - Len(digits), 10) = digits
                              /\ \A j \in 1..(10 - Len(digits)) : sec.cik[1][j] = "0"

\* a lower-case ticker was resolved through an entry of mixed case
C20_Witness ==
    /\ sec.state = "returned"
    /\ sec.method = "_get_cik"
    /\ sec.ticker = <<"a", "b">>
    /\ Len(sec.env.dir.entries) = 2
    /\ sec.env.dir.entries[2].ticker = Str(<<"a", "B">>)
    /\ sec.cik = Some(<<"0", "0", "0", "0", "3", "2", "0", "1", "9", "3">>)

\* C21: _get_cik never raises: it returns; and it returns None exactly when
\* the request raised, the directory was answered with a status outside
\* 200..299, the payload was malformed (no JSON, or the scan met an entry
\* with a null symbol or a matching entry without cik_str) or no entry has
\* the ticker as its symbol.
C21_FailsSoft ==
    (sec.method = "_get_cik" /\ sec.state # "off") =>
        /\ sec.state \in {"ready", "returned"}
        /\ sec.state = "returned" =>
              LET fetch == sec.env.dir.fetch
                  entries == sec.env.dir.entries
                  IsMatch(k) == /\ entries[k].ticker.k \in {"str", "absent"}
                                /\ SameIgnoringCase(entries[k].ticker.v, sec.ticker)
                  Broken(k) == \/ entries[k].ticker.k = "null"
                               \/ IsMatch(k) /\ entries[k].cik_str = None
                  Malformed == \/ ~fetch.decodable
                               \/ \E k \in 1..Len(entries) :
                                     Broken(k) /\ \A m \in 1..(k - 1) : ~IsMatch(m)
                  NoMatch == \A k \in 1..Len(entries) : ~IsMatch(k)
              IN  (\/ fetch.raised
                   \/ fetch.status_code \notin 200..299
                   \/ Malformed
                   \/ NoMatch) <=> sec.cik = None

\* the directory was answered 500 with a JSON body that holds the ticker,
\* and the lookup returned None
C21_Witness ==
    /\ sec.state = "returned"
    /\ sec.method = "_get_cik"
    /\ sec.env.dir.fetch = HttpResponse(500, TRUE)
    /\ sec.ticker = <<"A", "B">>
    /\ sec.env.dir.entries = <<[ticker |-> Str(<<"A", "B">>), cik_str |-> Some(7)]>>
    /\ sec.cik = None

\* C22: when _get_cik returns None for the ticker, get_filing and
\* get_company_facts each return the error "Could not find CIK for <ticker>"
\* and have sent a request to the ticker directory only; when the
\* identifier is resolved, get_company_facts returns an error with a reason
\* if its request raised, was answered with an error status or had no JSON
\* body, and the JSON body otherwise; neither method raises.
C22_UnresolvedIdentifierIsAnError ==
    (sec.method \in {"get_filing", "get_company_facts"} /\ sec.state # "off") =>
        /\ sec.state \in {"ready", "returned"}
        /\ sec.state = "returned" =>
              LET unresolved ==
                      \/ ~Fetched(sec.env.dir.fetch)
                      \/ get_cik(sec.ticker, sec.env.dir) = None
                  fetch == sec.env.facts.fetch
                  failed == \/ fetch.raised
                            \/ fetch.status_code \notin 200..399
                            \/ ~fetch.decodable
              IN  /\ unresolved =>
                        /\ sec.out.kind = "error"
                        /\ sec.out.error = <<"Could not find CIK for ", sec.ticker>>
                        /\ sec.requests = <<"company_tickers">>
                  /\ (~unresolved /\ sec.method = "get_company_facts") =>
                        /\ sec.requests = <<"company_tickers", "companyfacts">>
                        /\ failed =>
                              /\ sec.out.kind = "error"
                              /\ Len(sec.out.error) = 1
                              /\ sec.out.error[1] # ""
                        /\ ~failed =>
                              /\ sec.out.kind = "json"
                              /\ sec.out.us_gaap = sec.env.facts.us_gaap

\* the directory holds the ticker but was answered 404: get_company_facts
\* has sent one request and returned the lookup error
C22_Witness ==
    /\ sec.state = "returned"
    /\ sec.method = "get_company_facts"
    /\ sec.env.dir.fetch = HttpResponse(404, FALSE)
    /\ Len(sec.env.dir.entries) = 1
    /\ sec.env.dir.entries[1].ticker = Str(<<"A", "B">>)
    /\ sec.env.facts.fetch = HttpResponse(200, TRUE)
    /\ sec.out.kind = "error"
    /\ sec.requests = <<"company_tickers">>

(***************************************************************************)
(* StockDataFetcher                                                        *)
(***************************************************************************)
\* the keys of the bundle that a statement type selects
SelectedKeys(statement_type) ==
    CASE statement_type = "income" ->
             {"quarterly_income_statement", "annual_income_statement"}
      [] statement_type = "balance" -> {"quarterly_balance_sheet", "annual_balance_sheet"}
      [] statement_type = "cashflow" -> {"quarterly_cash_flow", "annual_cash_flow"}
      [] statement_type = "all" ->
             {"quarterly_income_statement", "annual_income_statement",
              "quarterly_balance_sheet", "annual_balance_sheet",
              "quarterly_cash_flow", "annual_cash_flow"}
      [] OTHER -> {}

\* the table the provider holds for a key of the bundle
TableOf(key) ==
    stock.env.tables[
        CASE key = "quarterly_income_statement" -> "quarterly_income_stmt"
          [] key = "annual_income_statement" -> "income_stmt"
          [] key = "quarterly_balance_sheet" -> "quarterly_balance_sheet"
          [] key = "annual_balance_sheet" -> "balance_sheet"
          [] key = "quarterly_cash_flow" -> "quarterly_cashflow"
          [] key = "annual_cash_flow" -> "cashflow"]

HasCells(table) == ~table.none /\ table.columns # <<>> /\ table.index # <<>>

FinancialsReturned ==
    stock.state = "returned" /\ stock.method = "get_financials" /\ ~stock.env.raises

\* C23: for every statement type and every combination of the six tables
\* being None, empty or not, the bundle get_financials returns holds the
\* upper-cased ticker, and holds a statement key exactly when the statement
\* type selects it and its table is neither None nor empty; a statement
\* that is present is never an empty mapping.
C23_BundleHoldsSelectedNonEmptyTables ==
    FinancialsReturned =>
        /\ stock.out.kind = "bundle"
        /\ IsUpperCaseOf(stock.out.ticker, stock.ticker)
        /\ DOMAIN stock.out.fields \subseteq SelectedKeys("all")
        /\ \A key \in SelectedKeys("all") :
              /\ key \in DOMAIN stock.out.fields <=>
                    /\ key \in SelectedKeys(stock.statement_type)
                    /\ HasCells(TableOf(key))
              /\ key \in DOMAIN stock.out.fields =>
                    /\ DOMAIN stock.out.fields[key] # {}
                    /\ \A c \in DOMAIN stock.out.fields[key] :
                          DOMAIN stock.out.fields[key][c] # {}

\* every table has cells and the balance sheets alone were asked for; and a
\* call for all statements whose annual income statement has no rows
C23_Witness ==
    /\ FinancialsReturned
    /\ \/ /\ stock.statement_type = "balance"
          /\ \A key \in SelectedKeys("all") : HasCells(TableOf(key))
          /\ DOMAIN stock.out.fields = {"quarterly_balance_sheet", "annual_balance_sheet"}
       \/ /\ stock.statement_type = "all"
          /\ TableOf("annual_income_statement") = DataFrame(<<"2024">>, <<>>, <<<<>>>>)
          /\ TableOf("quarterly_income_statement").none
          /\ \A key \in SelectedKeys("balance") \cup SelectedKeys("cashflow") :
                HasCells(TableOf(key))
          /\ DOMAIN stock.out.fields = SelectedKeys("balance") \cup SelectedKeys("cashflow")

\* the provider supplies a value under a key: a number, zero included
Supplied(x) == x.k = "num"

\* C24: for each of price, previous_close, open, day_high, day_low and
\* volume, get_quote returns the value of the primary key when the provider
\* supplies one, otherwise the value of the regular-market key when the
\* provider supplies one, otherwise null; a value that is missing or null
\* under both keys gives null and never zero.
C24_PrimaryThenSecondaryThenNull ==
    (stock.state = "returned" /\ stock.method = "get_quote" /\ ~stock.env.raises) =>
        /\ stock.out.kind = "quote"
        /\ \A k \in 1..Len(QuoteFields) :
              LET primary == stock.env.info[QuoteFields[k].primary]
                  secondary == stock.env.info[QuoteFields[k].secondary]
                  value == stock.out.fields[QuoteFields[k].field]
              IN  /\ Supplied(primary) => value = primary
                  /\ (~Supplied(primary) /\ Supplied(secondary)) => value = secondary
                  /\ (~Supplied(primary) /\ ~Supplied(secondary)) => value = NullValue

\* C25: get_key_metrics returns as levered_free_cash_flow the levered figure
\* when the provider supplies one, and the free-cash-flow figure when the
\* levered figure is missing from the provider data or is null.
C25_LeveredFallsBackToUnlevered ==
    (stock.state = "returned" /\ stock.method = "get_key_metrics" /\ ~stock.env.raises) =>
        /\ stock.out.kind = "metrics"
        /\ LET levered == stock.env.info["leveredFreeCashflow"]
               unlevered == stock.env.info["freeCashflow"]
               value == stock.out.fields.levered_free_cash_flow
           IN  /\ Supplied(levered) => value = levered
               /\ ~Supplied(levered) =>
                     value = IF Supplied(unlevered) THEN unlevered ELSE NullValue

(***************************************************************************)
(* FinnhubFetcher                                                          *)
(***************************************************************************)
\* C26: when FINNHUB_API_KEY is unset or empty, get_realtime_quote returns
\* an error whose message contains "not configured" and has sent no
\* request, whatever the ticker and whatever the provider would answer.
C26_NoKeyNoRequest ==
    (finnhub.state = "returned" /\ finnhub.api_key \in {None, Some("")}) =>
        /\ finnhub.out.kind = "error"
        /\ \E k \in 1..Len(finnhub.out.error) : finnhub.out.error[k] = "not configured"
        /\ finnhub.requests = <<>>

\* the key is empty, the ticker is null and the provider would have
\* answered with a quote
C26_Witness ==
    /\ finnhub.state = "returned"
    /\ finnhub.api_key = Some("")
    /\ finnhub.ticker = NullValue
    /\ finnhub.answer = Answer("", 200, TRUE, TRUE, [key \in FinnhubKeys |-> Num(5)])
    /\ finnhub.out.kind = "error"
    /\ finnhub.requests = <<>>

\* C27: with a key configured, get_realtime_quote returns an error with a
\* message whenever the request raised (connection failure, timeout), the
\* status is outside 200..299 or the body is no JSON mapping; it returns a
\* quote, with realtime true, only for a response with a status in 200..299
\* and a JSON mapping as body.
C27_EveryFailureIsAnError ==
    (finnhub.state = "returned" /\ finnhub.api_key = Some("key")) =>
        LET answer == finnhub.answer
            failed == \/ answer.raised # ""
                      \/ answer.status_code \notin 200..299
                      \/ ~answer.decodable
                      \/ ~answer.is_dict
        IN  /\ finnhub.out.kind \in {"error", "quote"}
            /\ failed => finnhub.out.kind = "error" /\ finnhub.out.error # <<>>
            /\ finnhub.out.kind = "quote" => finnhub.out.realtime /\ ~failed

(***************************************************************************)
(* Start of the process                                                    *)
(***************************************************************************)
\* C28: when ANTHROPIC_API_KEY is unset, empty or the placeholder, the
\* process never comes to serve: no request is taken and no model call is
\* made; every model call is made by a client built with a key; and a
\* process that exits at its start does so because .env is missing, the
\* key is not set or a dependency is missing, never because
\* FINNHUB_API_KEY is not set.
C28_MissingCredentialFailsStart ==
    boot.state # "off" =>
        /\ key_not_set(boot.anthropic_key) =>
              /\ boot.state # "serving"
              /\ pc = "idle"
              /\ calls = <<>>
        /\ calls # <<>> => boot.state = "serving" /\ ~key_not_set(boot.client_key)
        /\ boot.state = "exited" =>
              \/ boot.env_file # "present"
              \/ key_not_set(boot.anthropic_key)
              \/ boot.deps = "missing"

(***************************************************************************)
(* Order of the steps of a tool-use turn                                   *)
(***************************************************************************)
IsStatus(event) == event.type = "status"

StatusEvents == SelectSeq(events, IsStatus)

\* C29: in run_analysis_streaming a status event is emitted only when every
\* earlier status event has had its dispatcher call, and it names the
\* invocation of the current response that is dispatched next; a dispatcher
\* call is made only for the invocation whose status event was emitted
\* last, and it is recorded under the model call that returned the
\* invocation; a model call is made only when every status event has had
\* its dispatcher call and the invocations of all earlier responses, and
\* only they, have been dispatched.
C29_StatusThenDispatchWithinTurn ==
    [][req.route = "stream" =>
        /\ Len(SelectSeq(events', IsStatus)) > Len(StatusEvents) =>
              /\ Len(StatusEvents) = Len(dispatched)
              /\ dispatched' = dispatched
              /\ calls' = calls /\ response' = response
              /\ calls # <<>>
              /\ AtToolUse
              /\ events' = Append(events, [type |-> "status",
                                           message |-> events'[Len(events')].message])
              /\ events'[Len(events')].message[2] = response.content[i].name
        /\ Len(dispatched') > Len(dispatched) =>
              /\ Len(StatusEvents) = Len(dispatched) + 1
              /\ events' = events
              /\ calls' = calls /\ response' = response
              /\ Len(dispatched') = Len(dispatched) + 1
              /\ AtToolUse
              /\ dispatched'[Len(dispatched')].id = response.content[i].id
              /\ dispatched'[Len(dispatched')].name
                    = StatusEvents[Len(StatusEvents)].message[2]
              /\ dispatched'[Len(dispatched')].call = Len(calls)
        /\ Len(calls') > Len(calls) =>
              /\ Len(StatusEvents) = Len(dispatched)
              /\ events' = events
              /\ dispatched' = dispatched
              /\ Len(dispatched) = Len(Invocations(messages))
              /\ \A k \in 1..Len(dispatched) : dispatched[k].call <= Len(calls)
    ]_vars

\* a streaming run whose first response held two invocations: two status
\* events and two dispatcher calls lie between the first and the second
\* model call
C29_Witness ==
    /\ req.route = "stream"
    /\ pc = "done"
    /\ Len(calls) = 2
    /\ Len(dispatched) = 2
    /\ dispatched[1].call = 1
    /\ dispatched[2].call = 1
    /\ Len(StatusEvents) = 2

\* the texts of the blocks of the terminal response that the loop over its
\* content has passed
TextsPassed == TextSegments(SubSeq(response.content, 1, i - 1))

\* C30: a response with stop reason tool_use and no tool_use block has no
\* dispatcher call and no status event, and still has its assistant turn
\* and a user turn with an empty list of tool results appended, after which
\* the loop stands at the next model call or has made it; every model call
\* but the first follows an appended pair of turns; content events and the
\* text of run_analysis hold texts of the terminal response only, so no
\* text of a tool-use response is ever delivered.
C30_ToolUseTurnWithoutInvocation ==
    pc \notin {"idle", "rejected", "escaped"} =>
        /\ pc \in {"block", "dispatch", "final", "done"} => Len(calls) = ToolUseTurns + 1
        /\ pc = "model" => Len(calls) = ToolUseTurns
        /\ \A n \in 1..ToolUseTurns :
              /\ messages[2 * n].role = "assistant"
              /\ messages[2 * n + 1].role = "user"
              /\ SelectSeq(messages[2 * n].content, IsToolUse) = <<>> =>
                    /\ messages[2 * n + 1].content = <<>>
                    /\ \A k \in 1..Len(dispatched) : dispatched[k].call # n
                    /\ Len(calls) > n \/ (pc = "model" /\ Len(calls) = n)
        /\ (/\ pc = "block"
            /\ SelectSeq(response.content, IsToolUse) = <<>>) =>
              /\ tool_results = <<>>
              /\ Len(dispatched) = Len(Invocations(messages))
              /\ Len(StatusEvents) = IF req.route = "stream"
                                      THEN Len(Invocations(messages)) ELSE 0
        /\ Len(StatusEvents) <= Len(dispatched) + 1
        /\ IF pc \in {"final", "done"}
           THEN /\ response.stop_reason # "tool_use"
                /\ req.route = "stream" => ContentTexts(events) = TextsPassed
                /\ req.route = "analyze" => final_response = Joined(TextsPassed)
           ELSE /\ ContentTexts(events) = <<>>
                /\ final_response = ""
                /\ http.analysis = NoHttp.analysis

\* both variants: the first response was a tool-use response holding one
\* text and no invocation, the two turns were appended and the second
\* response ended the run with another text
C30_Witness ==
    /\ pc = "done"
    /\ Len(messages) = 3
    /\ Len(messages[2].content) = 1
    /\ messages[2].content[1].type = "text"
    /\ messages[2].content[1].text = "A"
    /\ messages[3] = [role |-> "user", content |-> <<>>]
    /\ Len(calls) = 2
    /\ dispatched = <<>>
    /\ StatusEvents = <<>>
    /\ TextSegments(response.content) = <<"B">>
    /\ \/ req.route = "stream" /\ ContentTexts(events) = <<"B">>
       \/ req.route = "analyze" /\ http.analysis = "B"
====
